---------------------------- MODULE Spec2Model ----------------------------
(***************************************************************************)
(* ICMPv6 Neighbor Discovery cache (icmp6/nd_cache.py, class NdCache).     *)
(*                                                                         *)
(* Three threads share the cache dictionary without any lock:              *)
(*   - the timer thread, which runs _maintain_cache once per second;       *)
(*   - the receive thread, which calls add_entry;                          *)
(*   - caller threads, which run find_entry.                               *)
(* Each statement of _maintain_cache is one step, so add_entry and         *)
(* find_entry interleave between the statements of a sweep.  add_entry is  *)
(* one statement.  find_entry reads the dictionary once (line 104) and     *)
(* then updates and returns the entry object it got (lines 105-110): every *)
(* interleaving of its two statements with the other threads leaves the    *)
(* same dictionary and returns the same value as running it whole at the   *)
(* read or at the update, so it is one step.                               *)
(*                                                                         *)
(* The clock is read in whole seconds and one clock unit is the period of  *)
(* the maintainer (delay=1000 ms): a sweep is due once per clock unit and  *)
(* the clock does not advance while a sweep is due or running.             *)
(*                                                                         *)
(* The other parts of the stack follow the cache, each with its own        *)
(* specification over the same variables:                                  *)
(*   Spec      the cache and its three threads                             *)
(*   SpecRm    the cache with a thread that removes keys                   *)
(*   SpecNs    _send_icmp6_neighbor_solicitation over host lists           *)
(*   SpecPh    _phrx_icmp6 (NS, NA, RS, RA) with the DAD and RA waits      *)
(*   SpecRa    Router Advertisements and the RA wait                       *)
(*   SpecEc    _phrx_icmp6 (Echo Request, Destination Unreachable)         *)
(*   SpecIp6   _phrx_ip6                                                   *)
(*   SpecSn    Ip6Address.solicited_node_multicast                         *)
(*   SpecDhcp4 Dhcp4Client.fetch                                           *)
(***************************************************************************)
EXTENDS Integers, Sequences, FiniteSets, TLC

\* config.nd_cache_entry_max_age and config.nd_cache_entry_refresh_time,
\* scaled down to a few clock units
MAX_AGE == 2
REFRESH_WINDOW == 1

\* stack.timer.register_method(method=self._maintain_cache, delay=1000):
\* the maintainer runs once per clock unit
SweepPeriod == 1

\* the clock stops at MaxTime; hit_count is not pushed beyond MaxHits
MaxTime == MAX_AGE + 2 * SweepPeriod
MaxHits == 2

\* the addresses used as cache keys and the link-layer addresses
Ip6Addresses == {"2001:db8::1", "2001:db8::2"}
MacAddresses == {"aa:bb:cc:dd:ee:ff", "00:11:22:33:44:55"}

\* the statically configured neighbors add_permanent is used for
StaticNeighbors == {<<"2001:db8::2", "00:11:22:33:44:55">>}
mac_unicast == "02:00:00:77:77:77"

None == "None"

----------------------------------------------------------------------------
\* lib/ip6_address.py.  An Ip6Address is written as its string; _address, a
\* 128-bit integer, is kept as eight 16-bit groups, most significant first.

\* Ip6Address(str): socket.inet_pton on the address literals in use
inet_pton ==
    [a \in {"::", "ff02::1", "2001:db8::1", "2001:db8::2", "2001:db8::7",
             "2001:db8::abcd:1234:5678", "2001:db8:1::7", "2001:db9::5",
             "fe80::1", "fe80::7", "fe80::abcd",
             "ff02::1:ff00:1", "ff02::1:ff00:2", "ff02::1:ff00:5",
             "ff02::1:ff00:7", "ff02::1:ff00:abcd", "ff02::1:ff34:5678",
             "fe80::ab34:5678", "ff02::1:ff00:0", "ff02::1:ff00:5678"} |->
        CASE a = "::"                       -> <<0, 0, 0, 0, 0, 0, 0, 0>>
          [] a = "ff02::1"                  -> <<\hff02, 0, 0, 0, 0, 0, 0, 1>>
          [] a = "2001:db8::1"              -> <<\h2001, \hdb8, 0, 0, 0, 0, 0, 1>>
          [] a = "2001:db8::2"              -> <<\h2001, \hdb8, 0, 0, 0, 0, 0, 2>>
          [] a = "2001:db8::7"              -> <<\h2001, \hdb8, 0, 0, 0, 0, 0, 7>>
          [] a = "2001:db8::abcd:1234:5678" ->
                 <<\h2001, \hdb8, 0, 0, 0, \habcd, \h1234, \h5678>>
          [] a = "2001:db8:1::7"            -> <<\h2001, \hdb8, 1, 0, 0, 0, 0, 7>>
          [] a = "2001:db9::5"              -> <<\h2001, \hdb9, 0, 0, 0, 0, 0, 5>>
          [] a = "fe80::1"                  -> <<\hfe80, 0, 0, 0, 0, 0, 0, 1>>
          [] a = "fe80::7"                  -> <<\hfe80, 0, 0, 0, 0, 0, 0, 7>>
          [] a = "fe80::abcd"               -> <<\hfe80, 0, 0, 0, 0, 0, 0, \habcd>>
          [] a = "ff02::1:ff00:1"           -> <<\hff02, 0, 0, 0, 0, 1, \hff00, 1>>
          [] a = "ff02::1:ff00:2"           -> <<\hff02, 0, 0, 0, 0, 1, \hff00, 2>>
          [] a = "ff02::1:ff00:5"           -> <<\hff02, 0, 0, 0, 0, 1, \hff00, 5>>
          [] a = "ff02::1:ff00:7"           -> <<\hff02, 0, 0, 0, 0, 1, \hff00, 7>>
          [] a = "ff02::1:ff00:abcd"        -> <<\hff02, 0, 0, 0, 0, 1, \hff00, \habcd>>
          [] a = "ff02::1:ff34:5678"        -> <<\hff02, 0, 0, 0, 0, 1, \hff34, \h5678>>
          [] a = "fe80::ab34:5678"          -> <<\hfe80, 0, 0, 0, 0, 0, \hab34, \h5678>>
          [] a = "ff02::1:ff00:0"           -> <<\hff02, 0, 0, 0, 0, 1, \hff00, 0>>
          [] a = "ff02::1:ff00:5678"        -> <<\hff02, 0, 0, 0, 0, 1, \hff00, \h5678>>]

\* Ip6Address.__str__: socket.inet_ntop of the eight groups
inet_ntop(groups) == CHOOSE a \in DOMAIN inet_pton : inet_pton[a] = groups

\* a & b and a | b on the n low bits of two groups
RECURSIVE BitAnd(_, _, _)
BitAnd(a, b, n) ==
    IF n = 0 THEN 0
    ELSE (a % 2) * (b % 2) + 2 * BitAnd(a \div 2, b \div 2, n - 1)

RECURSIVE BitOr(_, _, _)
BitOr(a, b, n) ==
    IF n = 0 THEN 0
    ELSE (IF a % 2 = 1 \/ b % 2 = 1 THEN 1 ELSE 0)
            + 2 * BitOr(a \div 2, b \div 2, n - 1)

\* the groups of the 128-bit integers x & y and x | y
And128(x, y) == [i \in 1..8 |-> BitAnd(x[i], y[i], 16)]
Or128(x, y) == [i \in 1..8 |-> BitOr(x[i], y[i], 16)]

\* Ip6Address.is_unspecified and Ip6Address.is_multicast (ff00::/8)
is_unspecified(address) == inet_pton[address] = <<0, 0, 0, 0, 0, 0, 0, 0>>
is_multicast(address) == inet_pton[address][1] >= \hff00

\* x < y for two 128-bit integers, from group i on
RECURSIVE IntLess(_, _, _)
IntLess(x, y, i) ==
    IF i > 8 THEN FALSE
    ELSE IF x[i] # y[i] THEN x[i] < y[i]
    ELSE IntLess(x, y, i + 1)

\* Ip6Address.is_solicited_node_multicast: self._address in
\* range(338963523518870617245727861372719464448,
\*       338963523518870617245727861372736241664),
\* that is from ff02::1:ff00:0 up to and without ff02::2:0:0
is_solicited_node_multicast(address) ==
    /\ ~IntLess(inet_pton[address], <<\hff02, 0, 0, 0, 0, 1, \hff00, 0>>, 1)
    /\ IntLess(inet_pton[address], <<\hff02, 0, 0, 0, 0, 2, 0, 0>>, 1)

\* solicited_node_multicast gone wrong: the mask is 0xFFFF
solicited_node_int_low16 ==
    [a \in DOMAIN inet_pton |->
        Or128(And128(inet_pton[a], <<0, 0, 0, 0, 0, 0, 0, \hffff>>),
              <<\hff02, 0, 0, 0, 0, 1, \hff00, 0>>)]

\* Ip6Address.solicited_node_multicast:
\* Ip6Address(self._address & 0xFFFFFF | int(Ip6Address("ff02::1:ff00:0"))),
\* the integer worked out once per address
solicited_node_int ==
    [a \in DOMAIN inet_pton |->
        Or128(And128(inet_pton[a], <<0, 0, 0, 0, 0, 0, \h00ff, \hffff>>),
              <<\hff02, 0, 0, 0, 0, 1, \hff00, 0>>)]

solicited_node_multicast(address) == inet_ntop(solicited_node_int[address])

\* Ip6Mask("/n"): n one bits followed by 128 - n zero bits
Ip6Mask(bit_count) ==
    [i \in 1..8 |->
        LET n == IF bit_count >= 16 * i THEN 16
                 ELSE IF bit_count <= 16 * (i - 1) THEN 0
                 ELSE bit_count - 16 * (i - 1)
        IN  65536 - 2 ^ (16 - n)]

\* the prefix lengths of the networks in use
PrefixLengths == {31, 64}

\* int(address) & int(mask), worked out once per address and mask
masked_int ==
    [a \in DOMAIN inet_pton, n \in PrefixLengths |->
        And128(inet_pton[a], Ip6Mask(n))]

\* Ip6Host("address/n"): the address and the network address & mask
Ip6Host(address, bit_count) ==
    [address |-> address,
     network |-> [address |-> masked_int[address, bit_count],
                  mask |-> bit_count]]

\* address in network
InNetwork(address, network) ==
    masked_int[address, network.mask] = network.address

VARIABLES
    now,        \* time.time(), whole seconds
    nd_cache,   \* self.nd_cache: Ip6Address -> CacheEntry
    nd_order,   \* insertion order of the dictionary's keys
    due,        \* the timer has a call of _maintain_cache pending
    mc,         \* the timer thread inside _maintain_cache
    tx,         \* packets handed to _phtx_icmp6 by the last step
    ev,         \* the last step: call or statement, key, argument, returned value
    refreshed,  \* history: keys whose present entry had a refresh sent
    ph,         \* stack.packet_handler: the fields the ND code reads and writes
    rx,         \* the receive thread inside _phrx_icmp6
    dad,        \* the thread that runs Duplicate Address Detection
    slaac,      \* the thread that waits for a Router Advertisement
    sockets,    \* stack.sockets: socket pattern -> socket
    packet_stats_rx,  \* self.packet_stats_rx: the counters of _phrx_ip6
    dhcp4       \* the thread inside Dhcp4Client.fetch: its locals and its socket

\* what lies outside the cache object
ip6_vars == <<sockets, packet_stats_rx>>

stack_vars == <<ph, rx, dad, slaac, ip6_vars, dhcp4>>

vars == <<now, nd_cache, nd_order, due, mc, tx, ev, refreshed, ph, rx, dad, slaac,
          sockets, packet_stats_rx, dhcp4>>

----------------------------------------------------------------------------
\* class CacheEntry: a new entry for mac_address, stamped with the clock
CacheEntry(mac_address, permanent) ==
    [mac_address |-> mac_address, permanent |-> permanent,
     creation_time |-> now, hit_count |-> 0]

\* time.time() - entry.creation_time
Age(entry) == now - entry.creation_time

\* dict store d[k] = e; a new key goes to the end of the iteration order
DictSet(d, k, e) == [x \in (DOMAIN d) \cup {k} |-> IF x = k THEN e ELSE d[x]]

OrderSet(o, d, k) == IF k \in DOMAIN d THEN o ELSE Append(o, k)

\* dict.pop(k)
DictPop(d, k) == [x \in (DOMAIN d) \ {k} |-> d[x]]

OrderPop(o, k) == SelectSeq(o, LAMBDA x : x # k)

\* icmp6.fpa.Icmp6NdOptSLLA(mac) and Icmp6NdOptTLLA(mac)
Icmp6NdOptSLLA(mac) == [code |-> "SLLA", addr |-> mac]
Icmp6NdOptTLLA(mac) == [code |-> "TLLA", addr |-> mac]

\* lines 120-123 gone wrong: the test of the host's network is left out
RECURSIVE pick_source_unchecked(_, _, _)
pick_source_unchecked(ip6_host, target, ip6_src) ==
    IF ip6_host = << >> THEN ip6_src
    ELSE pick_source_unchecked(Tail(ip6_host), target, Head(ip6_host).address)

\* lines 120-123 gone wrong: the loop stops at the first host whose
\* network holds the target
RECURSIVE pick_source_first(_, _, _)
pick_source_first(ip6_host, target, ip6_src) ==
    IF ip6_host = << >> THEN ip6_src
    ELSE IF InNetwork(target, Head(ip6_host).network)
    THEN Head(ip6_host).address
    ELSE pick_source_first(Tail(ip6_host), target, ip6_src)

\* lines 120-123: ip6_src is "::" unless the network of a host of the stack
\* holds the target; the loop does not break, so the last such host is used
RECURSIVE pick_source(_, _, _)
pick_source(ip6_host, target, ip6_src) ==
    IF ip6_host = << >> THEN ip6_src
    ELSE pick_source(Tail(ip6_host), target,
                     IF InNetwork(target, Head(ip6_host).network)
                     THEN Head(ip6_host).address ELSE ip6_src)

\* lines 127-134 gone wrong: the solicitation is sent to the target itself
NeighborSolicitation_unicast(target) ==
    [type |-> "NS",
     ip6_src |-> pick_source(ph.ip6_host, target, "::"),
     ip6_dst |-> target,
     ip6_hop |-> 255,
     ns_target_address |-> target,
     nd_options |-> <<Icmp6NdOptSLLA(mac_unicast)>>]

\* the Neighbor Solicitation _send_icmp6_neighbor_solicitation enqueues
NeighborSolicitation(target) ==
    [type |-> "NS",
     ip6_src |-> pick_source(ph.ip6_host, target, "::"),
     ip6_dst |-> solicited_node_multicast(target),
     ip6_hop |-> 255,
     ns_target_address |-> target,
     nd_options |-> <<Icmp6NdOptSLLA(mac_unicast)>>]

Event(op, key, arg, ret) == [op |-> op, key |-> key, arg |-> arg, ret |-> ret]

\* no call and no statement of the cache: the start, and the clock's steps
NoCall == Event("none", None, None, None)

\* hosts of the stack: 2001:db8::7/64, fe80::7/64 and 2001:db8:1::7/31
HostGlobal == Ip6Host("2001:db8::7", 64)
HostLinkLocal == Ip6Host("fe80::7", 64)
HostWide == Ip6Host("2001:db8:1::7", 31)

\* the fields of the packet handler the ND code uses, as they are before any
\* packet has come in: the hosts of the stack, no DAD candidate, both events
\* unreleased
PacketHandler(ip6_host) ==
    [ip6_host |-> ip6_host,
     ip6_unicast_candidate |-> None,
     icmp6_nd_dad_tlla |-> None,
     event_icmp6_nd_dad |-> 0,
     icmp6_ra_prefixes |-> << >>,
     event_icmp6_ra |-> 0]

\* self.ip6_unicast: the addresses of the hosts of the stack
ip6_unicast == {ph.ip6_host[i].address : i \in DOMAIN ph.ip6_host}

\* a packet as the handler reads it: packet_rx.ip6 and packet_rx.icmp6
PacketRx(type, ip6_src, ip6_dst, target, slla, tlla, pi) ==
    [type |-> type, ip6_src |-> ip6_src, ip6_dst |-> ip6_dst,
     target |-> target, nd_opt_slla |-> slla, nd_opt_tlla |-> tlla,
     nd_opt_pi |-> pi]

NoPacket == PacketRx("none", None, None, None, None, None, << >>)

\* the threads outside the cache at rest
RxIdle == [pc |-> "idle", packet |-> NoPacket]
DadIdle == [pc |-> "idle", candidate |-> None, result |-> None, heard |-> FALSE]
SlaacIdle == [pc |-> "idle", result |-> None, heard |-> FALSE]

\* no packet read by Dhcp4Client.fetch yet.  dhcp_router, a list or None, is
\* kept as a sequence that is empty for None and holds the list otherwise
NoDhcp4Packet ==
    [dhcp_msg_type |-> 0, dhcp_xid |-> -1, dhcp_srv_id |-> None,
     dhcp_yiaddr |-> None, dhcp_subnet_mask |-> None, dhcp_router |-> << >>]

\* Dhcp4Client before fetch is called: no socket, no transaction id
Dhcp4Idle ==
    [pc |-> "idle",
     s |-> [open |-> FALSE, closes |-> 0],
     dhcp_xid |-> -1,
     dhcp_packet_rx |-> NoDhcp4Packet,
     dhcp_srv_id |-> None,
     dhcp_yiaddr |-> None,
     ret |-> << >>]

\* stack.sockets with no socket registered
NoSockets == [pattern \in {} |-> None]

\* PacketStatsRx(): every counter starts at 0
PacketStatsRx ==
    [ip6__pre_parse |-> 0,
     ip6__failed_parse__drop |-> 0,
     ip6__dst_unknown__drop |-> 0,
     ip6__dst_unicast |-> 0,
     ip6__dst_multicast |-> 0]

----------------------------------------------------------------------------
Init ==
    /\ now = 0
    /\ nd_cache = [k \in {} |-> None]
    /\ nd_order = << >>
    /\ due = FALSE
    /\ mc = [pc |-> "idle", keys |-> << >>, key |-> None]
    /\ tx = << >>
    /\ ev = NoCall
    /\ refreshed = {}
    /\ ph = PacketHandler(<<Ip6Host("2001:db8::7", 64)>>)
    /\ rx = RxIdle
    /\ dad = DadIdle
    /\ slaac = SlaacIdle
    /\ sockets = NoSockets
    /\ packet_stats_rx = PacketStatsRx
    /\ dhcp4 = Dhcp4Idle

\* one second passes; the timer makes the maintainer due
Tick ==
    /\ now < MaxTime
    /\ ~due
    /\ mc.pc = "idle"
    /\ now' = now + SweepPeriod
    /\ due' = TRUE
    /\ tx' = << >>
    /\ ev' = NoCall
    /\ UNCHANGED <<nd_cache, nd_order, mc, refreshed>>
    /\ UNCHANGED stack_vars

\* add_entry gone wrong: an entry that exists is updated in place and keeps
\* its hit_count
add_entry_in_place(ip6_address, mac_address) ==
    /\ nd_cache' = DictSet(nd_cache, ip6_address,
                     IF ip6_address \in DOMAIN nd_cache
                     THEN [CacheEntry(mac_address, FALSE) EXCEPT
                             !.hit_count = nd_cache[ip6_address].hit_count]
                     ELSE CacheEntry(mac_address, FALSE))
    /\ nd_order' = OrderSet(nd_order, nd_cache, ip6_address)
    /\ tx' = << >>
    /\ ev' = Event("add_entry", ip6_address, mac_address, None)
    /\ refreshed' = refreshed \ {ip6_address}
    /\ UNCHANGED <<now, due, mc>>
    /\ UNCHANGED stack_vars

\* add_entry, one statement: self.nd_cache[ip6_address] = self.CacheEntry(mac_address)
add_entry(ip6_address, mac_address) ==
    /\ nd_cache' = DictSet(nd_cache, ip6_address, CacheEntry(mac_address, FALSE))
    /\ nd_order' = OrderSet(nd_order, nd_cache, ip6_address)
    /\ tx' = << >>
    /\ ev' = Event("add_entry", ip6_address, mac_address, None)
    /\ refreshed' = refreshed \ {ip6_address}
    /\ UNCHANGED <<now, due, mc>>
    /\ UNCHANGED stack_vars

\* add_permanent: the same store with CacheEntry(mac_address, permanent=True)
add_permanent(ip6_address, mac_address) ==
    /\ nd_cache' = DictSet(nd_cache, ip6_address, CacheEntry(mac_address, TRUE))
    /\ nd_order' = OrderSet(nd_order, nd_cache, ip6_address)
    /\ tx' = << >>
    /\ ev' = Event("add_permanent", ip6_address, mac_address, None)
    /\ refreshed' = refreshed \ {ip6_address}
    /\ UNCHANGED <<now, due, mc>>
    /\ UNCHANGED stack_vars

\* delete as a dictionary pop that is silent on a miss
delete_pop(ip6_address) ==
    /\ nd_cache' = DictPop(nd_cache, ip6_address)
    /\ nd_order' = OrderPop(nd_order, ip6_address)
    /\ tx' = << >>
    /\ ev' = Event("delete", ip6_address, None, None)
    /\ refreshed' = refreshed \ {ip6_address}
    /\ UNCHANGED <<now, due, mc>>
    /\ UNCHANGED stack_vars

\* NdCache defines no attribute named delete: the call raises AttributeError
\* before anything is touched
delete(ip6_address) ==
    /\ tx' = << >>
    /\ ev' = Event("delete", ip6_address, None, "AttributeError")
    /\ UNCHANGED <<now, nd_cache, nd_order, due, mc, refreshed>>
    /\ UNCHANGED stack_vars

\* find_entry gone wrong: a hit is not counted
find_entry_uncounted(ip6_address) ==
    /\ ip6_address \in DOMAIN nd_cache => nd_cache[ip6_address].hit_count < MaxHits
    /\ IF ip6_address \in DOMAIN nd_cache
       THEN /\ tx' = << >>
            /\ ev' = Event("find_entry", ip6_address, None,
                        nd_cache[ip6_address].mac_address)
       ELSE /\ tx' = <<NeighborSolicitation(ip6_address)>>
            /\ ev' = Event("find_entry", ip6_address, None, None)
    /\ UNCHANGED <<now, nd_cache, nd_order, due, mc, refreshed>>
    /\ UNCHANGED stack_vars

\* find_entry gone wrong: a miss leaves an empty placeholder entry behind
find_entry_placeholder(ip6_address) ==
    /\ ip6_address \in DOMAIN nd_cache => nd_cache[ip6_address].hit_count < MaxHits
    /\ IF ip6_address \in DOMAIN nd_cache
       THEN /\ nd_cache' = [nd_cache EXCEPT ![ip6_address].hit_count = @ + 1]
            /\ nd_order' = nd_order
            /\ tx' = << >>
            /\ ev' = Event("find_entry", ip6_address, None,
                        nd_cache[ip6_address].mac_address)
       ELSE /\ nd_cache' = DictSet(nd_cache, ip6_address, CacheEntry(None, FALSE))
            /\ nd_order' = OrderSet(nd_order, nd_cache, ip6_address)
            /\ tx' = <<NeighborSolicitation(ip6_address)>>
            /\ ev' = Event("find_entry", ip6_address, None, None)
    /\ UNCHANGED <<now, due, mc, refreshed>>
    /\ UNCHANGED stack_vars

\* find_entry: a hit counts and returns the MAC address (lines 104-110),
\* a miss sends a solicitation and returns None (lines 112-115)
find_entry(ip6_address) ==
    /\ ip6_address \in DOMAIN nd_cache => nd_cache[ip6_address].hit_count < MaxHits
    /\ IF ip6_address \in DOMAIN nd_cache
       THEN /\ nd_cache' = [nd_cache EXCEPT ![ip6_address].hit_count = @ + 1]
            /\ tx' = << >>
            /\ ev' = Event("find_entry", ip6_address, None,
                        nd_cache[ip6_address].mac_address)
       ELSE /\ nd_cache' = nd_cache
            /\ tx' = <<NeighborSolicitation(ip6_address)>>
            /\ ev' = Event("find_entry", ip6_address, None, None)
    /\ UNCHANGED <<now, nd_order, due, mc, refreshed>>
    /\ UNCHANGED stack_vars

----------------------------------------------------------------------------
\* _maintain_cache, line 75: for ip6_address in list(self.nd_cache)
maintain_cache_start ==
    /\ due
    /\ mc.pc = "idle"
    /\ mc' = [pc |-> "l78", keys |-> nd_order, key |-> None]
    /\ due' = FALSE
    /\ tx' = << >>
    /\ ev' = Event("maintain_cache_start", None, None, None)
    /\ UNCHANGED <<now, nd_cache, nd_order, refreshed>>
    /\ UNCHANGED stack_vars

\* a subscript self.nd_cache[key] of a key that is gone raises KeyError,
\* which ends the sweep
KeyError == [pc |-> "KeyError", keys |-> << >>, key |-> None]

\* the loop takes the next key of the snapshot, or ends;
\* line 78: if self.nd_cache[ip6_address].permanent: continue
maintain_cache_l78 ==
    /\ mc.pc = "l78"
    /\ IF mc.keys = << >>
       THEN /\ mc' = [pc |-> "idle", keys |-> << >>, key |-> None]
            /\ ev' = Event("maintain_cache_done", None, None, None)
       ELSE LET k == Head(mc.keys) IN
            /\ mc' = IF k \notin DOMAIN nd_cache THEN KeyError
                     ELSE IF nd_cache[k].permanent
                     THEN [pc |-> "l78", keys |-> Tail(mc.keys), key |-> None]
                     ELSE [pc |-> "l82", keys |-> Tail(mc.keys), key |-> k]
            /\ ev' = Event("maintain_cache_l78", k, None, None)
    /\ tx' = << >>
    /\ UNCHANGED <<now, nd_cache, nd_order, due, refreshed>>
    /\ UNCHANGED stack_vars

\* line 82 gone wrong: entries are discarded one sweep period late
maintain_cache_l82_late ==
    /\ mc.pc = "l82"
    /\ mc' = IF mc.key \notin DOMAIN nd_cache THEN KeyError
             ELSE IF Age(nd_cache[mc.key]) > MAX_AGE + SweepPeriod
             THEN [mc EXCEPT !.pc = "l83"]
             ELSE [mc EXCEPT !.pc = "l89"]
    /\ tx' = << >>
    /\ ev' = Event("maintain_cache_l82", mc.key, None, None)
    /\ UNCHANGED <<now, nd_cache, nd_order, due, refreshed>>
    /\ UNCHANGED stack_vars

\* line 82 gone wrong: >= in place of >
maintain_cache_l82_ge ==
    /\ mc.pc = "l82"
    /\ mc' = IF mc.key \notin DOMAIN nd_cache THEN KeyError
             ELSE IF Age(nd_cache[mc.key]) >= MAX_AGE
             THEN [mc EXCEPT !.pc = "l83"]
             ELSE [mc EXCEPT !.pc = "l89"]
    /\ tx' = << >>
    /\ ev' = Event("maintain_cache_l82", mc.key, None, None)
    /\ UNCHANGED <<now, nd_cache, nd_order, due, refreshed>>
    /\ UNCHANGED stack_vars

\* line 82: if time.time() - creation_time > config.nd_cache_entry_max_age
maintain_cache_l82 ==
    /\ mc.pc = "l82"
    /\ mc' = IF mc.key \notin DOMAIN nd_cache THEN KeyError
             ELSE IF Age(nd_cache[mc.key]) > MAX_AGE
             THEN [mc EXCEPT !.pc = "l83"]
             ELSE [mc EXCEPT !.pc = "l89"]
    /\ tx' = << >>
    /\ ev' = Event("maintain_cache_l82", mc.key, None, None)
    /\ UNCHANGED <<now, nd_cache, nd_order, due, refreshed>>
    /\ UNCHANGED stack_vars

\* line 83: mac_address = self.nd_cache.pop(ip6_address).mac_address
maintain_cache_l83 ==
    /\ mc.pc = "l83"
    /\ IF mc.key \notin DOMAIN nd_cache
       THEN /\ mc' = KeyError
            /\ UNCHANGED <<nd_cache, nd_order>>
       ELSE /\ mc' = [mc EXCEPT !.pc = "l78", !.key = None]
            /\ nd_cache' = DictPop(nd_cache, mc.key)
            /\ nd_order' = OrderPop(nd_order, mc.key)
    /\ tx' = << >>
    /\ ev' = Event("maintain_cache_l83", mc.key, None, None)
    /\ refreshed' = refreshed \ {mc.key}
    /\ UNCHANGED <<now, due>>
    /\ UNCHANGED stack_vars

\* lines 88-90 gone wrong: the refresh does not look at hit_count
maintain_cache_l89_unused ==
    /\ mc.pc = "l89"
    /\ mc' = IF mc.key \notin DOMAIN nd_cache THEN KeyError
             ELSE IF Age(nd_cache[mc.key]) > MAX_AGE - REFRESH_WINDOW
             THEN [mc EXCEPT !.pc = "l91"]
             ELSE [mc EXCEPT !.pc = "l78", !.key = None]
    /\ tx' = << >>
    /\ ev' = Event("maintain_cache_l89", mc.key, None, None)
    /\ UNCHANGED <<now, nd_cache, nd_order, due, refreshed>>
    /\ UNCHANGED stack_vars

\* lines 88-90 gone wrong: an entry that is not refreshed has its hit_count
\* cleared all the same
maintain_cache_l89_reset ==
    /\ mc.pc = "l89"
    /\ mc' = IF mc.key \notin DOMAIN nd_cache THEN KeyError
             ELSE IF /\ Age(nd_cache[mc.key]) > MAX_AGE - REFRESH_WINDOW
                     /\ nd_cache[mc.key].hit_count # 0
             THEN [mc EXCEPT !.pc = "l91"]
             ELSE [mc EXCEPT !.pc = "l78", !.key = None]
    /\ nd_cache' = IF mc.key \in DOMAIN nd_cache
                   THEN [nd_cache EXCEPT ![mc.key].hit_count = 0]
                   ELSE nd_cache
    /\ tx' = << >>
    /\ ev' = Event("maintain_cache_l89", mc.key, None, None)
    /\ UNCHANGED <<now, nd_order, due, refreshed>>
    /\ UNCHANGED stack_vars

\* lines 88-90: elif age > max_age - refresh_time and hit_count
maintain_cache_l89 ==
    /\ mc.pc = "l89"
    /\ mc' = IF mc.key \notin DOMAIN nd_cache THEN KeyError
             ELSE IF /\ Age(nd_cache[mc.key]) > MAX_AGE - REFRESH_WINDOW
                     /\ nd_cache[mc.key].hit_count # 0
             THEN [mc EXCEPT !.pc = "l91"]
             ELSE [mc EXCEPT !.pc = "l78", !.key = None]
    /\ tx' = << >>
    /\ ev' = Event("maintain_cache_l89", mc.key, None, None)
    /\ UNCHANGED <<now, nd_cache, nd_order, due, refreshed>>
    /\ UNCHANGED stack_vars

\* line 91 gone wrong: the refresh attempt also renews creation_time
maintain_cache_l91_renew ==
    /\ mc.pc = "l91"
    /\ IF mc.key \notin DOMAIN nd_cache
       THEN /\ mc' = KeyError
            /\ UNCHANGED nd_cache
       ELSE /\ mc' = [mc EXCEPT !.pc = "l92"]
            /\ nd_cache' = [nd_cache EXCEPT ![mc.key].hit_count = 0,
                                            ![mc.key].creation_time = now]
    /\ tx' = << >>
    /\ ev' = Event("maintain_cache_l91", mc.key, None, None)
    /\ UNCHANGED <<now, nd_order, due, refreshed>>
    /\ UNCHANGED stack_vars

\* line 91: self.nd_cache[ip6_address].hit_count = 0
maintain_cache_l91 ==
    /\ mc.pc = "l91"
    /\ IF mc.key \notin DOMAIN nd_cache
       THEN /\ mc' = KeyError
            /\ UNCHANGED nd_cache
       ELSE /\ mc' = [mc EXCEPT !.pc = "l92"]
            /\ nd_cache' = [nd_cache EXCEPT ![mc.key].hit_count = 0]
    /\ tx' = << >>
    /\ ev' = Event("maintain_cache_l91", mc.key, None, None)
    /\ UNCHANGED <<now, nd_order, due, refreshed>>
    /\ UNCHANGED stack_vars

\* line 92: self._send_icmp6_neighbor_solicitation(ip6_address)
maintain_cache_l92 ==
    /\ mc.pc = "l92"
    /\ mc' = [mc EXCEPT !.pc = "l78", !.key = None]
    /\ tx' = <<NeighborSolicitation(mc.key)>>
    /\ ev' = Event("maintain_cache_l92", mc.key, None, None)
    /\ refreshed' = IF mc.key \in DOMAIN nd_cache
                    THEN refreshed \cup {mc.key} ELSE refreshed
    /\ UNCHANGED <<now, nd_cache, nd_order, due>>
    /\ UNCHANGED stack_vars

----------------------------------------------------------------------------
Next ==
    \/ Tick
    \/ \E k \in Ip6Addresses, m \in MacAddresses : add_entry(k, m)
    \/ \E n \in StaticNeighbors : add_permanent(n[1], n[2])
    \/ \E k \in Ip6Addresses : delete(k)
    \/ \E k \in Ip6Addresses : find_entry(k)
    \/ maintain_cache_start
    \/ maintain_cache_l78
    \/ maintain_cache_l82
    \/ maintain_cache_l83
    \/ maintain_cache_l89
    \/ maintain_cache_l91
    \/ maintain_cache_l92

Spec == Init /\ [][Next]_vars

----------------------------------------------------------------------------
\* The cache with a concurrent deleter.  NdCache itself never removes a key
\* outside the sweep; the deletion that the sweep has to tolerate is another
\* thread taking a key out of the dictionary: removes the entry if present,
\* silent on a miss.
dict_pop(ip6_address) ==
    /\ nd_cache' = DictPop(nd_cache, ip6_address)
    /\ nd_order' = OrderPop(nd_order, ip6_address)
    /\ tx' = << >>
    /\ ev' = Event("dict_pop", ip6_address, None, None)
    /\ refreshed' = refreshed \ {ip6_address}
    /\ UNCHANGED <<now, due, mc>>
    /\ UNCHANGED stack_vars

NextRm ==
    \/ Tick
    \/ \E k \in Ip6Addresses, m \in MacAddresses : add_entry(k, m)
    \/ \E k \in Ip6Addresses : find_entry(k)
    \/ \E k \in Ip6Addresses : dict_pop(k)
    \/ maintain_cache_start
    \/ maintain_cache_l78
    \/ maintain_cache_l82
    \/ maintain_cache_l83
    \/ maintain_cache_l89
    \/ maintain_cache_l91
    \/ maintain_cache_l92

SpecRm == Init /\ [][NextRm]_vars

----------------------------------------------------------------------------
\* icmp6/phrx.py, _phrx_icmp6.  The receive thread takes one packet at a
\* time off the RX ring and handles it.  A Neighbor Solicitation reads the
\* shared fields of the stack once (line 67) and is one step.  A Neighbor Advertisement tests the DAD
\* candidate (line 104), stores the option (line 105) and releases the event
\* (line 106) as three statements; a Router Advertisement stores the prefixes
\* (line 130) and releases the event (line 131) as two.  The threads that run
\* DAD and wait for a Router Advertisement move between those statements.

\* how many times an event is released before it is acquired
MaxReleases == 2

\* the link-layer address inbound options carry
PeerMac == "aa:bb:cc:dd:ee:ff"

\* the prefix information option a Router Advertisement carries
PrefixInfo == "2001:db8::/64"

\* the packets the receive thread is given
Packets ==
    {PacketRx("NS", src, solicited_node_multicast(target), target, slla, None, << >>) :
        src \in {"::", "fe80::abcd", "ff02::1"},
        target \in {"fe80::7", "fe80::1"},
        slla \in {None, PeerMac}}
    \cup
    {PacketRx("NA", "fe80::abcd", "ff02::1", target, None, tlla, << >>) :
        target \in {"fe80::1", "2001:db8::1"}, tlla \in {None, PeerMac}}
    \cup
    {PacketRx("RS", "fe80::abcd", "ff02::1", None, None, None, << >>)}
    \cup
    {PacketRx("RA", "fe80::abcd", "ff02::1", None, None, None, pi) :
        pi \in {<< >>, <<PrefixInfo>>}}

\* a step of the receive thread or of a waiting thread, for ev: the
\* statement, the target of the packet and its link-layer address option
Handled(op, packet) ==
    Event(op, packet.target,
          IF packet.type = "NS" THEN packet.nd_opt_slla ELSE packet.nd_opt_tlla,
          None)

\* line 67 gone wrong: the target is not tested
ns_for_stack_any(packet) == TRUE

\* line 67 gone wrong: the address DAD is running for counts as the stack's
ns_for_stack_candidate(packet) ==
    packet.target \in ip6_unicast \cup {ph.ip6_unicast_candidate}

\* line 67: the request is for one of the stack's unicast addresses
ns_for_stack(packet) == packet.target \in ip6_unicast

\* line 78 gone wrong: a multicast source is let through
ns_updates_cache_multicast(packet) ==
    /\ ~is_unspecified(packet.ip6_src)
    /\ packet.nd_opt_slla # None

\* line 78: the source is neither unspecified nor multicast and the
\* solicitation carries a source link-layer address
ns_updates_cache(packet) ==
    /\ ~(is_unspecified(packet.ip6_src) \/ is_multicast(packet.ip6_src))
    /\ packet.nd_opt_slla # None

\* lines 82-95 gone wrong: the S and O flags are exchanged
NeighborAdvertisement_flags(packet) ==
    LET ip6_nd_dad == is_unspecified(packet.ip6_src) IN
    [type |-> "NA",
     ip6_src |-> packet.target,
     ip6_dst |-> IF ip6_nd_dad THEN "ff02::1" ELSE packet.ip6_src,
     ip6_hop |-> 255,
     na_flag_s |-> ip6_nd_dad,
     na_flag_o |-> ~ip6_nd_dad,
     na_target_address |-> packet.target,
     nd_options |-> <<Icmp6NdOptTLLA(mac_unicast)>>]

\* lines 82-95: the Neighbor Advertisement sent in reply
NeighborAdvertisement(packet) ==
    LET ip6_nd_dad == is_unspecified(packet.ip6_src) IN
    [type |-> "NA",
     ip6_src |-> packet.target,
     ip6_dst |-> IF ip6_nd_dad THEN "ff02::1" ELSE packet.ip6_src,
     ip6_hop |-> 255,
     na_flag_s |-> ~ip6_nd_dad,
     na_flag_o |-> ip6_nd_dad,
     na_target_address |-> packet.target,
     nd_options |-> <<Icmp6NdOptTLLA(mac_unicast)>>]

\* self.icmp6_nd_cache.add_entry(ip6_address, mac_address) from the handler
cache_add_entry(ip6_address, mac_address) ==
    /\ nd_cache' = DictSet(nd_cache, ip6_address, CacheEntry(mac_address, FALSE))
    /\ nd_order' = OrderSet(nd_order, nd_cache, ip6_address)
    /\ refreshed' = refreshed \ {ip6_address}

\* lines 51-62: the handler is entered with a packet that parsed
phrx_icmp6(packet) ==
    /\ rx.pc = "idle"
    /\ rx' = [pc |-> "l65", packet |-> packet]
    /\ tx' = << >>
    /\ ev' = Handled("phrx_icmp6", packet)
    /\ UNCHANGED <<now, nd_cache, nd_order, due, mc, refreshed, ph, dad, slaac>>
    /\ UNCHANGED <<ip6_vars, dhcp4>>

\* lines 65-96: Neighbor Solicitation
phrx_icmp6_ns ==
    /\ rx.pc = "l65"
    /\ rx.packet.type = "NS"
    /\ rx' = RxIdle
    /\ IF ~ns_for_stack(rx.packet)
       THEN /\ tx' = << >>
            /\ UNCHANGED <<nd_cache, nd_order, refreshed>>
       ELSE /\ IF ns_updates_cache(rx.packet)
               THEN cache_add_entry(rx.packet.ip6_src, rx.packet.nd_opt_slla)
               ELSE UNCHANGED <<nd_cache, nd_order, refreshed>>
            /\ tx' = <<NeighborAdvertisement(rx.packet)>>
    /\ ev' = Handled("phrx_icmp6_ns", rx.packet)
    /\ UNCHANGED <<now, due, mc, ph, dad, slaac>>
    /\ UNCHANGED <<ip6_vars, dhcp4>>

\* line 104: the advertisement is for the address DAD is running for
na_for_candidate(packet) == packet.target = ph.ip6_unicast_candidate

\* line 111 gone wrong: the entry is stored under the sender of the packet
na_cache_key_src(packet) == packet.ip6_src

\* line 111: the key the advertised link-layer address is stored under
na_cache_key(packet) == packet.target

\* lines 99-104 and 109-114: Neighbor Advertisement, up to the test of the
\* DAD candidate, and the update of the cache when the test fails
phrx_icmp6_na ==
    /\ rx.pc = "l65"
    /\ rx.packet.type = "NA"
    /\ IF na_for_candidate(rx.packet)
       THEN /\ ph.event_icmp6_nd_dad < MaxReleases
            /\ rx' = [rx EXCEPT !.pc = "l105"]
            /\ dad' = [dad EXCEPT !.heard = @ \/ dad.pc = "wait"]
            /\ UNCHANGED <<nd_cache, nd_order, refreshed>>
       ELSE /\ rx' = RxIdle
            /\ IF rx.packet.nd_opt_tlla # None
               THEN cache_add_entry(na_cache_key(rx.packet), rx.packet.nd_opt_tlla)
               ELSE UNCHANGED <<nd_cache, nd_order, refreshed>>
            /\ UNCHANGED dad
    /\ tx' = << >>
    /\ ev' = Handled("phrx_icmp6_na", rx.packet)
    /\ UNCHANGED <<now, due, mc, ph, slaac>>
    /\ UNCHANGED <<ip6_vars, dhcp4>>

\* line 105: self.icmp6_nd_dad_tlla = packet_rx.icmp6.nd_opt_tlla
phrx_icmp6_l105 ==
    /\ rx.pc = "l105"
    /\ ph' = [ph EXCEPT !.icmp6_nd_dad_tlla = rx.packet.nd_opt_tlla]
    /\ rx' = [rx EXCEPT !.pc = "l106"]
    /\ tx' = << >>
    /\ ev' = Handled("phrx_icmp6_l105", rx.packet)
    /\ UNCHANGED <<now, nd_cache, nd_order, due, mc, refreshed, dad, slaac>>
    /\ UNCHANGED <<ip6_vars, dhcp4>>

\* line 107 gone wrong: no return, the cache is updated as well
phrx_icmp6_l106_no_return ==
    /\ rx.pc = "l106"
    /\ ph' = [ph EXCEPT !.event_icmp6_nd_dad = @ + 1]
    /\ rx' = RxIdle
    /\ IF rx.packet.nd_opt_tlla # None
       THEN cache_add_entry(rx.packet.target, rx.packet.nd_opt_tlla)
       ELSE UNCHANGED <<nd_cache, nd_order, refreshed>>
    /\ tx' = << >>
    /\ ev' = Handled("phrx_icmp6_l106", rx.packet)
    /\ UNCHANGED <<now, due, mc, dad, slaac>>
    /\ UNCHANGED <<ip6_vars, dhcp4>>

\* line 106 gone wrong: the event is not released
phrx_icmp6_l106_silent ==
    /\ rx.pc = "l106"
    /\ rx' = RxIdle
    /\ tx' = << >>
    /\ ev' = Handled("phrx_icmp6_l106", rx.packet)
    /\ UNCHANGED <<now, nd_cache, nd_order, due, mc, refreshed, ph, dad, slaac>>
    /\ UNCHANGED <<ip6_vars, dhcp4>>

\* lines 106-107: self.event_icmp6_nd_dad.release()
phrx_icmp6_l106 ==
    /\ rx.pc = "l106"
    /\ ph' = [ph EXCEPT !.event_icmp6_nd_dad = @ + 1]
    /\ rx' = RxIdle
    /\ tx' = << >>
    /\ ev' = Handled("phrx_icmp6_l106", rx.packet)
    /\ UNCHANGED <<now, nd_cache, nd_order, due, mc, refreshed, dad, slaac>>
    /\ UNCHANGED <<ip6_vars, dhcp4>>

\* lines 117-121: Router Solicitation, not used by the stack
phrx_icmp6_rs ==
    /\ rx.pc = "l65"
    /\ rx.packet.type = "RS"
    /\ rx' = RxIdle
    /\ tx' = << >>
    /\ ev' = Handled("phrx_icmp6_rs", rx.packet)
    /\ UNCHANGED <<now, nd_cache, nd_order, due, mc, refreshed, ph, dad, slaac>>
    /\ UNCHANGED <<ip6_vars, dhcp4>>

\* line 130 gone wrong: the prefixes are added to those noted before
phrx_icmp6_ra_extend ==
    /\ rx.pc = "l65"
    /\ rx.packet.type = "RA"
    /\ ph.event_icmp6_ra < MaxReleases
    /\ Len(ph.icmp6_ra_prefixes) + Len(rx.packet.nd_opt_pi) <= 2
    /\ ph' = [ph EXCEPT !.icmp6_ra_prefixes = @ \o
                [i \in DOMAIN rx.packet.nd_opt_pi |->
                    <<rx.packet.nd_opt_pi[i], rx.packet.ip6_src>>]]
    /\ rx' = [rx EXCEPT !.pc = "l131"]
    /\ slaac' = [slaac EXCEPT !.heard = @ \/ slaac.pc = "wait"]
    /\ tx' = << >>
    /\ ev' = Handled("phrx_icmp6_ra", rx.packet)
    /\ UNCHANGED <<now, nd_cache, nd_order, due, mc, refreshed, dad>>
    /\ UNCHANGED <<ip6_vars, dhcp4>>

\* lines 124-130: Router Advertisement, the prefixes are noted
phrx_icmp6_ra ==
    /\ rx.pc = "l65"
    /\ rx.packet.type = "RA"
    /\ ph.event_icmp6_ra < MaxReleases
    /\ ph' = [ph EXCEPT !.icmp6_ra_prefixes =
                [i \in DOMAIN rx.packet.nd_opt_pi |->
                    <<rx.packet.nd_opt_pi[i], rx.packet.ip6_src>>]]
    /\ rx' = [rx EXCEPT !.pc = "l131"]
    /\ slaac' = [slaac EXCEPT !.heard = @ \/ slaac.pc = "wait"]
    /\ tx' = << >>
    /\ ev' = Handled("phrx_icmp6_ra", rx.packet)
    /\ UNCHANGED <<now, nd_cache, nd_order, due, mc, refreshed, dad>>
    /\ UNCHANGED <<ip6_vars, dhcp4>>

\* lines 131-132: self.event_icmp6_ra.release()
phrx_icmp6_l131 ==
    /\ rx.pc = "l131"
    /\ ph' = [ph EXCEPT !.event_icmp6_ra = @ + 1]
    /\ rx' = RxIdle
    /\ tx' = << >>
    /\ ev' = Handled("phrx_icmp6_l131", rx.packet)
    /\ UNCHANGED <<now, nd_cache, nd_order, due, mc, refreshed, dad, slaac>>
    /\ UNCHANGED <<ip6_vars, dhcp4>>

----------------------------------------------------------------------------
\* Duplicate Address Detection and the wait for a Router Advertisement, as
\* the threads that run them use the fields above: each attempt starts from
\* fresh state and a fresh event, waits with a timeout, and ends.

\* the addresses DAD is run for
Candidates == {"fe80::1"}

\* the Neighbor Solicitation that probes for a candidate
DadSolicitation(candidate) ==
    [type |-> "NS",
     ip6_src |-> "::",
     ip6_dst |-> solicited_node_multicast(candidate),
     ip6_hop |-> 255,
     ns_target_address |-> candidate,
     nd_options |-> << >>]

RouterSolicitation == [type |-> "RS", ip6_src |-> "::", ip6_dst |-> "ff02::2", ip6_hop |-> 255]

\* the candidate is registered, the probe is sent and the wait begins
dad_start(candidate) ==
    /\ dad.pc = "idle"
    /\ candidate \notin ip6_unicast
    /\ ph' = [ph EXCEPT !.ip6_unicast_candidate = candidate,
                        !.icmp6_nd_dad_tlla = None,
                        !.event_icmp6_nd_dad = 0]
    /\ dad' = [pc |-> "wait", candidate |-> candidate, result |-> None,
               heard |-> FALSE]
    /\ tx' = <<DadSolicitation(candidate)>>
    /\ ev' = Handled("dad_start", NoPacket)
    /\ UNCHANGED <<now, nd_cache, nd_order, due, mc, refreshed, rx, slaac>>
    /\ UNCHANGED <<ip6_vars, dhcp4>>

\* the wait ends on a release of the event: the address is in use
dad_signalled ==
    /\ dad.pc = "wait"
    /\ ph.event_icmp6_nd_dad > 0
    /\ ph' = [ph EXCEPT !.event_icmp6_nd_dad = @ - 1,
                        !.ip6_unicast_candidate = None]
    /\ dad' = [dad EXCEPT !.pc = "idle", !.result = "duplicate"]
    /\ tx' = << >>
    /\ ev' = Handled("dad_signalled", NoPacket)
    /\ UNCHANGED <<now, nd_cache, nd_order, due, mc, refreshed, rx, slaac>>
    /\ UNCHANGED <<ip6_vars, dhcp4>>

\* the wait ends on the timeout: the candidate becomes an address of the stack
dad_timeout ==
    /\ dad.pc = "wait"
    /\ ph.event_icmp6_nd_dad = 0
    /\ ph' = [ph EXCEPT !.ip6_host = Append(@, Ip6Host(dad.candidate, 64)),
                        !.ip6_unicast_candidate = None]
    /\ dad' = [dad EXCEPT !.pc = "idle", !.result = "installed"]
    /\ tx' = << >>
    /\ ev' = Handled("dad_timeout", NoPacket)
    /\ UNCHANGED <<now, nd_cache, nd_order, due, mc, refreshed, rx, slaac>>
    /\ UNCHANGED <<ip6_vars, dhcp4>>

\* a Router Solicitation is sent and the wait for an advertisement begins
slaac_start ==
    /\ slaac.pc = "idle"
    /\ ph' = [ph EXCEPT !.icmp6_ra_prefixes = << >>,
                        !.event_icmp6_ra = 0]
    /\ slaac' = [pc |-> "wait", result |-> None, heard |-> FALSE]
    /\ tx' = <<RouterSolicitation>>
    /\ ev' = Handled("slaac_start", NoPacket)
    /\ UNCHANGED <<now, nd_cache, nd_order, due, mc, refreshed, rx, dad>>
    /\ UNCHANGED <<ip6_vars, dhcp4>>

\* the wait ends on a release of the event
slaac_signalled ==
    /\ slaac.pc = "wait"
    /\ ph.event_icmp6_ra > 0
    /\ ph' = [ph EXCEPT !.event_icmp6_ra = @ - 1]
    /\ slaac' = [slaac EXCEPT !.pc = "idle", !.result = "signalled"]
    /\ tx' = << >>
    /\ ev' = Handled("slaac_signalled", NoPacket)
    /\ UNCHANGED <<now, nd_cache, nd_order, due, mc, refreshed, rx, dad>>
    /\ UNCHANGED <<ip6_vars, dhcp4>>

\* the wait ends on the timeout: no router
slaac_timeout ==
    /\ slaac.pc = "wait"
    /\ ph.event_icmp6_ra = 0
    /\ slaac' = [slaac EXCEPT !.pc = "idle", !.result = "timeout"]
    /\ tx' = << >>
    /\ ev' = Handled("slaac_timeout", NoPacket)
    /\ UNCHANGED <<now, nd_cache, nd_order, due, mc, refreshed, rx, dad, ph>>
    /\ UNCHANGED <<ip6_vars, dhcp4>>

InitPh ==
    /\ now = 0
    /\ nd_cache = [k \in {} |-> None]
    /\ nd_order = << >>
    /\ due = FALSE
    /\ mc = [pc |-> "idle", keys |-> << >>, key |-> None]
    /\ tx = << >>
    /\ ev = NoCall
    /\ refreshed = {}
    /\ ph = PacketHandler(<<HostLinkLocal>>)
    /\ rx = RxIdle
    /\ dad = DadIdle
    /\ slaac = SlaacIdle
    /\ sockets = NoSockets
    /\ packet_stats_rx = PacketStatsRx
    /\ dhcp4 = Dhcp4Idle

NextPh ==
    \/ \E packet \in Packets : phrx_icmp6(packet)
    \/ phrx_icmp6_ns
    \/ phrx_icmp6_na
    \/ phrx_icmp6_l105
    \/ phrx_icmp6_l106
    \/ phrx_icmp6_rs
    \/ phrx_icmp6_ra
    \/ phrx_icmp6_l131
    \/ \E candidate \in Candidates : dad_start(candidate)
    \/ dad_signalled
    \/ dad_timeout
    \/ slaac_start
    \/ slaac_signalled
    \/ slaac_timeout

SpecPh == InitPh /\ [][NextPh]_vars

----------------------------------------------------------------------------
\* Router Advertisements from two routers, with no, one and two Prefix
\* Information options, and the thread that waits for them; a Neighbor
\* Advertisement fills the cache.

RaPackets ==
    {PacketRx("RA", src, "ff02::1", None, None, None, pi) :
        src \in {"fe80::abcd", "fe80::1"},
        pi \in {<< >>, <<PrefixInfo>>, <<"2001:db8:1::/64", PrefixInfo>>}}
    \cup
    {PacketRx("NA", "fe80::abcd", "ff02::1", "2001:db8::1", None, PeerMac, << >>)}

NextRa ==
    \/ \E packet \in RaPackets : phrx_icmp6(packet)
    \/ phrx_icmp6_na
    \/ phrx_icmp6_ra
    \/ phrx_icmp6_l131
    \/ slaac_start
    \/ slaac_signalled
    \/ slaac_timeout

SpecRa == InitPh /\ [][NextRa]_vars

----------------------------------------------------------------------------
\* _phrx_icmp6, Echo Request and Destination Unreachable.

\* an Echo Request as the handler sees it: addresses, identifier, sequence
\* number and data
EchoRequest(ip6_src, ip6_dst, ec_id, ec_seq, ec_data) ==
    [ec_id |-> ec_id, ec_seq |-> ec_seq, ec_data |-> ec_data]
    @@ PacketRx("EchoRequest", ip6_src, ip6_dst, None, None, None, << >>)

\* lines 139-148 gone wrong: the reply goes out with the hop limit of an
\* ordinary datagram
EchoReply_hop64(packet) ==
    [type |-> "EchoReply",
     ip6_src |-> packet.ip6_dst,
     ip6_dst |-> packet.ip6_src,
     ip6_hop |-> 64,
     ec_id |-> packet.ec_id,
     ec_seq |-> packet.ec_seq,
     ec_data |-> packet.ec_data]

\* lines 139-148 gone wrong: the addresses are not exchanged
EchoReply_unswapped(packet) ==
    [type |-> "EchoReply",
     ip6_src |-> packet.ip6_src,
     ip6_dst |-> packet.ip6_dst,
     ip6_hop |-> 255,
     ec_id |-> packet.ec_id,
     ec_seq |-> packet.ec_seq,
     ec_data |-> packet.ec_data]

\* lines 139-148: the Echo Reply sent
EchoReply(packet) ==
    [type |-> "EchoReply",
     ip6_src |-> packet.ip6_dst,
     ip6_dst |-> packet.ip6_src,
     ip6_hop |-> 255,
     ec_id |-> packet.ec_id,
     ec_seq |-> packet.ec_seq,
     ec_data |-> packet.ec_data]

\* lines 135-149: Echo Request
phrx_icmp6_echo ==
    /\ rx.pc = "l65"
    /\ rx.packet.type = "EchoRequest"
    /\ rx' = RxIdle
    /\ tx' = <<EchoReply(rx.packet)>>
    /\ ev' = Handled("phrx_icmp6_echo", rx.packet)
    /\ UNCHANGED <<now, nd_cache, nd_order, due, mc, refreshed, ph, dad, slaac>>
    /\ UNCHANGED <<ip6_vars, dhcp4>>

\* ip6.ps.IP6_HEADER_LEN, udp.ps.UDP_HEADER_LEN, ip6.ps.IP6_NEXT_HEADER_UDP
IP6_HEADER_LEN == 40
UDP_HEADER_LEN == 8
IP6_NEXT_HEADER_UDP == 17

\* frame[i] and frame[i:j] of a bytes object, counted from 0 as Python does
Byte(frame, i) == frame[i + 1]
Slice(frame, i, j) == SubSeq(frame, i + 1, j)

\* Ip6Address(bytes), lines 95-99 of lib/ip6_address.py: sixteen bytes in
\* network order make the address
Ip6AddressFromBytes(b) ==
    inet_ntop([i \in 1..8 |-> b[2 * i - 1] * 256 + b[2 * i]])

\* struct.unpack("!H", b)[0]
UnpackH(b) == b[1] * 256 + b[2]

\* line 159: the embedded datagram is long enough for an IPv6 and a UDP
\* header, its version is 6 and its next header is UDP
un_data_is_ip6_udp(frame) ==
    /\ Len(frame) >= IP6_HEADER_LEN + UDP_HEADER_LEN
    /\ Byte(frame, 0) \div 16 = 6
    /\ Byte(frame, 6) = IP6_NEXT_HEADER_UDP

\* lines 162-167: UdpMetadata of the embedded datagram
UdpMetadata(frame) ==
    LET udp_offset == IP6_HEADER_LEN IN
    [local_ip_address |-> Ip6AddressFromBytes(Slice(frame, 8, 24)),
     remote_ip_address |-> Ip6AddressFromBytes(Slice(frame, 24, 40)),
     local_port |-> UnpackH(Slice(frame, udp_offset + 0, udp_offset + 2)),
     remote_port |-> UnpackH(Slice(frame, udp_offset + 2, udp_offset + 4))]

\* UdpMetadata.socket_patterns: the patterns a socket may be registered
\* under, most specific first; "*" stands for any address and 0 for any port
socket_patterns(packet) ==
    <<<<packet.local_ip_address, packet.local_port,
        packet.remote_ip_address, packet.remote_port>>,
      <<packet.local_ip_address, packet.local_port, "*", 0>>,
      <<"*", packet.local_port, "*", 0>>>>

\* lines 169-175 gone wrong: the least specific pattern is tried first
RECURSIVE first_match_reversed(_, _)
first_match_reversed(patterns, i) ==
    LET j == Len(patterns) + 1 - i IN
    IF i > Len(patterns) THEN 0
    ELSE IF patterns[j] \in DOMAIN sockets THEN j
    ELSE first_match_reversed(patterns, i + 1)

\* lines 169-175: the loop over the patterns from position i on stops at
\* the first one stack.sockets holds; 0 when none is held
RECURSIVE first_match(_, _)
first_match(patterns, i) ==
    IF i > Len(patterns) THEN 0
    ELSE IF patterns[i] \in DOMAIN sockets THEN i
    ELSE first_match(patterns, i + 1)

\* how many times one socket is notified
MaxNotified == 2

\* socket.notify_unreachable()
notify_unreachable(socket) == [socket EXCEPT !.unreachable = @ + 1]

\* lines 152-183: Destination Unreachable
phrx_icmp6_unreachable ==
    /\ rx.pc = "l65"
    /\ rx.packet.type = "Unreachable"
    /\ rx' = RxIdle
    /\ tx' = << >>
    /\ LET frame == rx.packet.un_data IN
       IF un_data_is_ip6_udp(frame)
       THEN LET patterns == socket_patterns(UdpMetadata(frame))
                i == first_match(patterns, 1)
            IN  IF i # 0
                THEN /\ sockets[patterns[i]].unreachable < MaxNotified
                     /\ sockets' = [sockets EXCEPT ![patterns[i]] =
                                        notify_unreachable(@)]
                     /\ ev' = [Handled("phrx_icmp6_unreachable", rx.packet)
                                 EXCEPT !.ret = "notify_unreachable"]
                ELSE /\ sockets' = sockets
                     /\ ev' = Handled("phrx_icmp6_unreachable", rx.packet)
       ELSE /\ sockets' = sockets
            /\ ev' = Handled("phrx_icmp6_unreachable", rx.packet)
    /\ UNCHANGED <<now, nd_cache, nd_order, due, mc, refreshed, ph, dad, slaac>>
    /\ UNCHANGED <<packet_stats_rx, dhcp4>>

\* the bytes of an address and of a 16-bit number in network order
Bytes16(address) ==
    [i \in 1..16 |->
        LET group == inet_pton[address][(i + 1) \div 2] IN
        IF i % 2 = 1 THEN group \div 256 ELSE group % 256]
PackH(n) == <<n \div 256, n % 256>>

\* an embedded datagram: forty bytes of IPv6 header that start with byte0
\* and name the next header, then the eight bytes of a UDP header
Datagram(byte0, next, src, dst, sport, dport) ==
    <<byte0, 0, 0, 0>> \o PackH(UDP_HEADER_LEN) \o <<next, 64>>
    \o Bytes16(src) \o Bytes16(dst)
    \o PackH(sport) \o PackH(dport) \o PackH(UDP_HEADER_LEN) \o <<0, 0>>

\* the embedded datagrams a Destination Unreachable brings back: four that
\* pass the test of line 159, then one cut short, one of IP version 4 and
\* one that carries TCP
UnreachableData ==
    {Datagram(\h60, IP6_NEXT_HEADER_UDP, "fe80::7", "fe80::abcd", 5000, 53),
     Datagram(\h60, IP6_NEXT_HEADER_UDP, "fe80::7", "fe80::abcd", 5000, 123),
     Datagram(\h60, IP6_NEXT_HEADER_UDP, "2001:db8::7", "fe80::abcd", 5000, 53),
     Datagram(\h60, IP6_NEXT_HEADER_UDP, "fe80::7", "fe80::abcd", 6000, 53),
     SubSeq(Datagram(\h60, IP6_NEXT_HEADER_UDP, "fe80::7", "fe80::abcd", 5000, 53),
            1, IP6_HEADER_LEN + UDP_HEADER_LEN - 1),
     Datagram(\h45, IP6_NEXT_HEADER_UDP, "fe80::7", "fe80::abcd", 5000, 53),
     Datagram(\h60, 6, "fe80::7", "fe80::abcd", 5000, 53)}

\* a Destination Unreachable as the handler sees it
Unreachable(ip6_src, ip6_dst, un_data) ==
    [un_data |-> un_data]
    @@ PacketRx("Unreachable", ip6_src, ip6_dst, None, None, None, << >>)

\* the patterns UDP sockets are registered under
SocketTables ==
    {{},
     {<<"fe80::7", 5000, "fe80::abcd", 53>>},
     {<<"fe80::7", 5000, "fe80::abcd", 53>>, <<"fe80::7", 5000, "*", 0>>,
      <<"*", 5000, "*", 0>>},
     {<<"fe80::7", 5000, "*", 0>>, <<"*", 5000, "*", 0>>},
     {<<"*", 5000, "*", 0>>}}

\* a socket that has not been notified
UdpSocket == [unreachable |-> 0]

\* the packets the receive thread is given
EcPackets ==
    {PacketRx("NS", src, solicited_node_multicast(target), target, PeerMac, None, << >>) :
        src \in {"::", "fe80::abcd"}, target \in {"fe80::7", "fe80::1"}}
    \cup
    {EchoRequest(src, dst, ec[1], ec[2], ec[3]) :
        src \in {"fe80::abcd", "2001:db8::1"},
        dst \in {"fe80::7", "ff02::1"},
        ec \in {<<1, 0, << >>>>, <<513, 258, <<222, 173>>>>}}
    \cup
    {Unreachable("fe80::abcd", "fe80::7", un_data) : un_data \in UnreachableData}

InitEc ==
    /\ now = MAX_AGE
    /\ due = FALSE
    /\ tx = << >>
    /\ refreshed = {}
    /\ ph = PacketHandler(<<HostLinkLocal, HostGlobal>>)
    /\ rx = RxIdle
    /\ dad = DadIdle
    /\ slaac = SlaacIdle
    /\ \E table \in SocketTables : sockets = [pattern \in table |-> UdpSocket]
    /\ packet_stats_rx = PacketStatsRx
    /\ dhcp4 = Dhcp4Idle
    /\ \/ /\ nd_cache = [k \in {} |-> None]
          /\ nd_order = << >>
          /\ mc = [pc |-> "idle", keys |-> << >>, key |-> None]
          /\ ev = NoCall
       \/ \E k \in {"2001:db8::1"}, m \in MacAddresses :
          /\ nd_cache = [x \in {k} |->
                            [mac_address |-> m, permanent |-> FALSE,
                             creation_time |-> 0, hit_count |-> 0]]
          /\ nd_order = <<k>>
          /\ mc = [pc |-> "l92", keys |-> << >>, key |-> k]
          /\ ev = Event("maintain_cache_l91", k, None, None)

NextEc ==
    \/ \E packet \in EcPackets : phrx_icmp6(packet)
    \/ phrx_icmp6_ns
    \/ phrx_icmp6_echo
    \/ phrx_icmp6_unreachable
    \/ \E k \in {"2001:db8::1", "fe80::1"} : find_entry(k)
    \/ maintain_cache_l92
    \/ maintain_cache_l78

SpecEc == InitEc /\ [][NextEc]_vars

----------------------------------------------------------------------------
\* protocols/ip6/phrx.py, _phrx_ip6.  The receive thread counts the packet
\* (line 48), then parses it, tests its destination and hands it to the
\* handler of its next header (lines 50-88).

\* protocols.ip6.ps: the next header values the handler dispatches on
IP6_NEXT_EXT_FRAG == 44
IP6_NEXT_ICMP6 == 58
IP6_NEXT_UDP == 17
IP6_NEXT_TCP == 6

\* how many packets the receive thread is given
MaxPackets == 2

\* self.ip6_multicast: the all-nodes group and the solicited-node group of
\* every unicast address of the stack
ip6_multicast ==
    {"ff02::1"} \cup {solicited_node_multicast(address) : address \in ip6_unicast}

\* an inbound packet after Ip6Parser: what the parser reports and, when it
\* reports nothing, the destination and the next header
Ip6PacketRx(parse_failed, ip6_dst, ip6_next) ==
    [parse_failed |-> parse_failed, ip6_dst |-> ip6_dst, ip6_next |-> ip6_next]

\* the packets the receive thread is given: one that fails to parse, and
\* packets to the stack's address, to its groups, to another host and to
\* another group, with each next header handled and two that are not
\* (hop-by-hop options, no next header)
Ip6Packets ==
    {Ip6PacketRx("IPv6 integrity - wrong packet length", None, 0)}
    \cup
    {Ip6PacketRx(None, dst, next) :
        dst \in {"fe80::7", "ff02::1", "ff02::1:ff00:7", "2001:db8::2",
                 "ff02::1:ff00:1"},
        next \in {IP6_NEXT_EXT_FRAG, IP6_NEXT_ICMP6, IP6_NEXT_UDP,
                  IP6_NEXT_TCP, 0, 59}}

\* lines 74-88: the handler the packet is handed to, None when the next
\* header is none of the four
next_handler(ip6_next) ==
    IF ip6_next = IP6_NEXT_EXT_FRAG THEN "_phrx_ip6_ext_frag"
    ELSE IF ip6_next = IP6_NEXT_ICMP6 THEN "_phrx_icmp6"
    ELSE IF ip6_next = IP6_NEXT_UDP THEN "_phrx_udp"
    ELSE IF ip6_next = IP6_NEXT_TCP THEN "_phrx_tcp"
    ELSE None

\* line 48: self.packet_stats_rx.ip6__pre_parse += 1
phrx_ip6(packet) ==
    /\ rx.pc = "idle"
    /\ packet_stats_rx.ip6__pre_parse < MaxPackets
    /\ packet_stats_rx' = [packet_stats_rx EXCEPT !.ip6__pre_parse = @ + 1]
    /\ rx' = [pc |-> "l50", packet |-> packet]
    /\ tx' = << >>
    /\ ev' = Event("phrx_ip6", packet.ip6_dst, None, None)
    /\ UNCHANGED <<now, nd_cache, nd_order, due, mc, refreshed, ph, dad, slaac>>
    /\ UNCHANGED <<sockets, dhcp4>>

\* lines 50-88: parse, test the destination, count, dispatch
phrx_ip6_l50 ==
    /\ rx.pc = "l50"
    /\ rx' = RxIdle
    /\ tx' = << >>
    /\ LET packet == rx.packet IN
       IF packet.parse_failed # None
       THEN /\ packet_stats_rx' =
                   [packet_stats_rx EXCEPT !.ip6__failed_parse__drop = @ + 1]
            /\ ev' = Event("phrx_ip6_l50", packet.ip6_dst, None, None)
       ELSE IF packet.ip6_dst \notin ip6_unicast \cup ip6_multicast
       THEN /\ packet_stats_rx' =
                   [packet_stats_rx EXCEPT !.ip6__dst_unknown__drop = @ + 1]
            /\ ev' = Event("phrx_ip6_l50", packet.ip6_dst, None, None)
       ELSE LET handler == next_handler(packet.ip6_next) IN
            /\ packet_stats_rx' =
                   [packet_stats_rx EXCEPT
                      !.ip6__dst_unicast =
                          IF packet.ip6_dst \in ip6_unicast THEN @ + 1 ELSE @,
                      !.ip6__dst_multicast =
                          IF packet.ip6_dst \in ip6_multicast THEN @ + 1 ELSE @]
            /\ ev' = Event("phrx_ip6_l50", packet.ip6_dst, None, handler)
    /\ UNCHANGED <<now, nd_cache, nd_order, due, mc, refreshed, ph, dad, slaac>>
    /\ UNCHANGED <<sockets, dhcp4>>

InitIp6 ==
    /\ now = 0
    /\ nd_cache = [k \in {} |-> None]
    /\ nd_order = << >>
    /\ due = FALSE
    /\ mc = [pc |-> "idle", keys |-> << >>, key |-> None]
    /\ tx = << >>
    /\ ev = NoCall
    /\ refreshed = {}
    /\ \E ip6_host \in {<< >>, <<HostLinkLocal>>, <<HostLinkLocal, HostGlobal>>} :
          ph = PacketHandler(ip6_host)
    /\ rx = RxIdle
    /\ dad = DadIdle
    /\ slaac = SlaacIdle
    /\ sockets = NoSockets
    /\ packet_stats_rx = PacketStatsRx
    /\ dhcp4 = Dhcp4Idle

NextIp6 ==
    \/ \E packet \in Ip6Packets : phrx_ip6(packet)
    \/ phrx_ip6_l50

SpecIp6 == InitIp6 /\ [][NextIp6]_vars

----------------------------------------------------------------------------
\* _send_icmp6_neighbor_solicitation over a range of targets and host lists:
\* the cache is empty, or holds one entry that the maintainer has reached
\* line 92 for, and the hosts of the stack are one of Registries

Registries ==
    {<< >>, <<HostGlobal>>, <<HostLinkLocal>>, <<HostWide>>,
     <<HostGlobal, HostLinkLocal>>, <<HostGlobal, HostWide>>,
     <<HostWide, HostGlobal>>, <<HostWide, HostLinkLocal, HostGlobal>>}

NsTargets ==
    {"2001:db8::1", "2001:db8::2", "2001:db8::abcd:1234:5678", "2001:db9::5",
     "fe80::1", "fe80::abcd"}

InitNs ==
    /\ now = MAX_AGE
    /\ due = FALSE
    /\ tx = << >>
    /\ refreshed = {}
    /\ \E r \in Registries : ph = PacketHandler(r)
    /\ rx = RxIdle
    /\ dad = DadIdle
    /\ slaac = SlaacIdle
    /\ sockets = NoSockets
    /\ packet_stats_rx = PacketStatsRx
    /\ dhcp4 = Dhcp4Idle
    /\ \/ /\ nd_cache = [k \in {} |-> None]
          /\ nd_order = << >>
          /\ mc = [pc |-> "idle", keys |-> << >>, key |-> None]
          /\ ev = NoCall
       \/ \E k \in NsTargets, m \in MacAddresses :
          /\ nd_cache = [x \in {k} |->
                            [mac_address |-> m, permanent |-> FALSE,
                             creation_time |-> 0, hit_count |-> 0]]
          /\ nd_order = <<k>>
          /\ mc = [pc |-> "l92", keys |-> << >>, key |-> k]
          /\ ev = Event("maintain_cache_l91", k, None, None)

NextNs ==
    \/ \E k \in NsTargets : find_entry(k)
    \/ maintain_cache_l92
    \/ maintain_cache_l78

SpecNs == InitNs /\ [][NextNs]_vars

----------------------------------------------------------------------------
\* dhcp4/client.py, Dhcp4Client.fetch.  One thread runs the function from
\* top to bottom; the steps are the stretches between its two receives.  The
\* server side is whatever arrives on the socket within the timeout, or
\* nothing.

\* dhcp4.ps: the op code and the message types and options the client names
DHCP4_OP_REQUEST == 1
DHCP4_MSG_DISCOVER == 1
DHCP4_MSG_OFFER == 2
DHCP4_MSG_REQUEST == 3
DHCP4_MSG_ACK == 5
DHCP4_OPT_SUBNET_MASK == 1
DHCP4_OPT_ROUTER == 3

\* random.randint(0, 0xFFFFFFFF), two of its values
DhcpXids == {0, 2147483647}

\* the servers and the addresses they offer
DhcpServers == {"192.168.9.1", "192.168.9.2"}
DhcpOffered == {"192.168.9.102", "192.168.9.103"}

\* lines 65-76: the Discover message
Dhcp4Discover(dhcp_xid) ==
    [dhcp_op |-> DHCP4_OP_REQUEST,
     dhcp_xid |-> dhcp_xid,
     dhcp_ciaddr |-> "0.0.0.0",
     dhcp_yiaddr |-> "0.0.0.0",
     dhcp_siaddr |-> "0.0.0.0",
     dhcp_giaddr |-> "0.0.0.0",
     dhcp_chaddr |-> mac_unicast,
     dhcp_msg_type |-> DHCP4_MSG_DISCOVER,
     dhcp_param_req_list |-> <<DHCP4_OPT_SUBNET_MASK, DHCP4_OPT_ROUTER>>,
     dhcp_host_name |-> "PyTCP"]

\* lines 108-121: the Request message
Dhcp4Request(dhcp_xid, dhcp_srv_id, dhcp_yiaddr) ==
    [dhcp_op |-> DHCP4_OP_REQUEST,
     dhcp_xid |-> dhcp_xid,
     dhcp_ciaddr |-> "0.0.0.0",
     dhcp_yiaddr |-> "0.0.0.0",
     dhcp_siaddr |-> "0.0.0.0",
     dhcp_giaddr |-> "0.0.0.0",
     dhcp_chaddr |-> mac_unicast,
     dhcp_msg_type |-> DHCP4_MSG_REQUEST,
     dhcp_srv_id |-> dhcp_srv_id,
     dhcp_req_ip_addr |-> dhcp_yiaddr,
     dhcp_param_req_list |-> <<DHCP4_OPT_SUBNET_MASK, DHCP4_OPT_ROUTER>>,
     dhcp_host_name |-> "PyTCP"]

\* dhcp4.ps.Dhcp4Packet(s.recv(timeout=5)): the messages that can arrive,
\* an Offer, an Ack or a Nak (message type 6), with the transaction id of
\* this client or of another
Dhcp4Replies ==
    [dhcp_msg_type : {DHCP4_MSG_OFFER, DHCP4_MSG_ACK, 6},
     dhcp_xid : DhcpXids,
     dhcp_srv_id : DhcpServers,
     dhcp_yiaddr : DhcpOffered,
     dhcp_subnet_mask : {None, "/24"},
     dhcp_router : {<< >>, << <<"192.168.9.1">> >>}]

\* s.close()
socket_close(s) == [open |-> FALSE, closes |-> s.closes + 1]

\* lines 57-79: the socket is made, the transaction id is drawn and the
\* Discover is sent
fetch(dhcp_xid) ==
    /\ dhcp4.pc = "idle"
    /\ dhcp4' = [dhcp4 EXCEPT !.pc = "l83",
                              !.s = [open |-> TRUE, closes |-> 0],
                              !.dhcp_xid = dhcp_xid]
    /\ tx' = <<Dhcp4Discover(dhcp_xid)>>
    /\ ev' = Event("fetch", None, None, None)
    /\ UNCHANGED <<now, nd_cache, nd_order, due, mc, refreshed>>
    /\ UNCHANGED <<ph, rx, dad, slaac, ip6_vars>>

\* lines 83-88: s.recv raises ReceiveTimeout
fetch_l84 ==
    /\ dhcp4.pc = "l83"
    /\ dhcp4' = [dhcp4 EXCEPT !.pc = "return",
                              !.s = socket_close(@),
                              !.ret = <<None, None>>]
    /\ tx' = << >>
    /\ ev' = Event("fetch_l83", None, None, "ReceiveTimeout")
    /\ UNCHANGED <<now, nd_cache, nd_order, due, mc, refreshed>>
    /\ UNCHANGED <<ph, rx, dad, slaac, ip6_vars>>

\* line 90 gone wrong: the message type is not tested
is_offer_any(packet) == TRUE

\* line 90: the message is an Offer
is_offer(packet) == packet.dhcp_msg_type = DHCP4_MSG_OFFER

\* lines 83 and 90-125: a message arrives; unless it is an Offer the socket
\* is closed and the function returns, else the Request is sent
fetch_l83(packet) ==
    /\ dhcp4.pc = "l83"
    /\ IF ~is_offer(packet)
       THEN /\ dhcp4' = [dhcp4 EXCEPT !.pc = "return",
                                      !.dhcp_packet_rx = packet,
                                      !.s = socket_close(@),
                                      !.ret = <<None, None>>]
            /\ tx' = << >>
       ELSE /\ dhcp4' = [dhcp4 EXCEPT !.pc = "l129",
                                      !.dhcp_packet_rx = packet,
                                      !.dhcp_srv_id = packet.dhcp_srv_id,
                                      !.dhcp_yiaddr = packet.dhcp_yiaddr]
            /\ tx' = <<Dhcp4Request(dhcp4.dhcp_xid, packet.dhcp_srv_id,
                                    packet.dhcp_yiaddr)>>
    /\ ev' = Event("fetch_l83", None, None, None)
    /\ UNCHANGED <<now, nd_cache, nd_order, due, mc, refreshed>>
    /\ UNCHANGED <<ph, rx, dad, slaac, ip6_vars>>

\* lines 129-134: s.recv raises ReceiveTimeout
fetch_l130 ==
    /\ dhcp4.pc = "l129"
    /\ dhcp4' = [dhcp4 EXCEPT !.pc = "return",
                              !.s = socket_close(@),
                              !.ret = <<None, None>>]
    /\ tx' = << >>
    /\ ev' = Event("fetch_l129", None, None, "ReceiveTimeout")
    /\ UNCHANGED <<now, nd_cache, nd_order, due, mc, refreshed>>
    /\ UNCHANGED <<ph, rx, dad, slaac, ip6_vars>>

\* lines 129 and 136-155: a message arrives; unless it is an Ack the socket
\* is closed and (None, None) is returned; else the socket is closed, the
\* assertion of line 151 is made and the address and the router are returned
fetch_l129(packet) ==
    /\ dhcp4.pc = "l129"
    /\ IF packet.dhcp_msg_type # DHCP4_MSG_ACK
       THEN dhcp4' = [dhcp4 EXCEPT !.pc = "return",
                                   !.dhcp_packet_rx = packet,
                                   !.s = socket_close(@),
                                   !.ret = <<None, None>>]
       ELSE IF packet.dhcp_subnet_mask = None
       THEN dhcp4' = [dhcp4 EXCEPT !.pc = "AssertionError",
                                   !.dhcp_packet_rx = packet,
                                   !.s = socket_close(@)]
       ELSE dhcp4' = [dhcp4 EXCEPT !.pc = "return",
                                   !.dhcp_packet_rx = packet,
                                   !.s = socket_close(@),
                                   !.ret = <<packet.dhcp_yiaddr \o packet.dhcp_subnet_mask,
                                             IF packet.dhcp_router # << >>
                                             THEN packet.dhcp_router[1][1]
                                             ELSE None>>]
    /\ tx' = << >>
    /\ ev' = Event("fetch_l129", None, None, None)
    /\ UNCHANGED <<now, nd_cache, nd_order, due, mc, refreshed>>
    /\ UNCHANGED <<ph, rx, dad, slaac, ip6_vars>>

NextDhcp4 ==
    \/ \E dhcp_xid \in DhcpXids : fetch(dhcp_xid)
    \/ fetch_l84
    \/ \E packet \in Dhcp4Replies : fetch_l83(packet)
    \/ fetch_l130
    \/ \E packet \in Dhcp4Replies : fetch_l129(packet)

SpecDhcp4 == Init /\ [][NextDhcp4]_vars

----------------------------------------------------------------------------
\* lib/ip6_address.py on its own: two addresses are made, and the solicited
\* node group of the first is worked out.

\* the addresses the property is applied to
SnAddresses == DOMAIN inet_pton

\* a = Ip6Address(...); b = Ip6Address(...); a.solicited_node_multicast
solicited_node_multicast_call ==
    /\ ev.op = "Ip6Address"
    /\ ev' = Event("solicited_node_multicast", ev.key, ev.arg,
                   solicited_node_multicast(ev.key))
    /\ tx' = << >>
    /\ UNCHANGED <<now, nd_cache, nd_order, due, mc, refreshed>>
    /\ UNCHANGED stack_vars

InitSn ==
    /\ now = 0
    /\ nd_cache = [k \in {} |-> None]
    /\ nd_order = << >>
    /\ due = FALSE
    /\ mc = [pc |-> "idle", keys |-> << >>, key |-> None]
    /\ tx = << >>
    /\ \E a \in SnAddresses, b \in SnAddresses :
          ev = Event("Ip6Address", a, b, None)
    /\ refreshed = {}
    /\ ph = PacketHandler(<< >>)
    /\ rx = RxIdle
    /\ dad = DadIdle
    /\ slaac = SlaacIdle
    /\ sockets = NoSockets
    /\ packet_stats_rx = PacketStatsRx
    /\ dhcp4 = Dhcp4Idle

NextSn == solicited_node_multicast_call

SpecSn == InitSn /\ [][NextSn]_vars

----------------------------------------------------------------------------
\* a step is named by the event it leaves
StepOf(op) == ev'.op = op

\* C1: add_entry(K, M), whatever K held before, leaves K bound to a fresh
\* entry (M, created now, hit_count 0, not permanent), leaves every other
\* key's entry as it was and sends nothing; a find_entry(K) that follows
\* at once returns M and sends no solicitation.
C1_AddEntryOverwrites ==
    [][ /\ StepOf("add_entry") =>
            /\ DOMAIN nd_cache' = DOMAIN nd_cache \cup {ev'.key}
            /\ nd_cache'[ev'.key] = [mac_address |-> ev'.arg, permanent |-> FALSE,
                                     creation_time |-> now', hit_count |-> 0]
            /\ \A x \in DOMAIN nd_cache \ {ev'.key} : nd_cache'[x] = nd_cache[x]
            /\ tx' = << >>
        /\ (ev.op = "add_entry" /\ StepOf("find_entry") /\ ev'.key = ev.key) =>
            /\ ev'.ret = ev.arg
            /\ tx' = << >>
      ]_vars

\* C1 witness: add_entry has just rebound a key that was already in the
\* dictionary (it is still ahead of the other key in iteration order), at a
\* later time than the start, while the other key holds a used entry
C1_Witness ==
    /\ ev.op = "add_entry"
    /\ now > 0
    /\ Len(nd_order) = 2
    /\ nd_order[1] = ev.key
    /\ nd_cache[nd_order[2]].hit_count > 0
    /\ nd_cache[nd_order[2]].creation_time < now

\* C2: find_entry of a key that is in the cache returns the stored MAC
\* address, raises that entry's hit_count by exactly one, changes nothing
\* else in the cache and sends no solicitation.
C2_FindEntryHit ==
    [][ (StepOf("find_entry") /\ ev'.key \in DOMAIN nd_cache) =>
            /\ ev'.ret = nd_cache[ev'.key].mac_address
            /\ nd_cache' = [nd_cache EXCEPT
                              ![ev'.key].hit_count = nd_cache[ev'.key].hit_count + 1]
            /\ tx' = << >>
      ]_vars

\* C2 witness: a second hit on the same entry has just returned its address
C2_Witness ==
    /\ ev.op = "find_entry"
    /\ ev.ret \in MacAddresses
    /\ nd_cache[ev.key].hit_count = 2

\* C3: find_entry of a key that is not in the cache returns None, sends
\* exactly one Neighbor Solicitation for that key and leaves the cache
\* as it was (no entry is created for the key).
C3_FindEntryMiss ==
    [][ (StepOf("find_entry") /\ ev'.key \notin DOMAIN nd_cache) =>
            /\ ev'.ret = None
            /\ tx' = <<NeighborSolicitation(ev'.key)>>
            /\ tx'[1].ns_target_address = ev'.key
            /\ nd_cache' = nd_cache
            /\ nd_order' = nd_order
      ]_vars

\* C3 witness: a miss has just been answered while the other key is cached
C3_Witness ==
    /\ ev.op = "find_entry"
    /\ ev.ret = None
    /\ Len(tx) = 1
    /\ ev.key \notin DOMAIN nd_cache
    /\ DOMAIN nd_cache # {}

\* C4: an entry put by add_entry(K, M) stays, with M, through every step
\* that is no later insertion for K, for as long as its age is within MAX_AGE,
\* and every find_entry(K) in that time returns M.
C4_LookupWithinMaxAge ==
    [][ \A k \in DOMAIN nd_cache :
          ( /\ ~nd_cache[k].permanent
            /\ now' - nd_cache[k].creation_time <= MAX_AGE
            /\ ~(ev'.op \in {"add_entry", "add_permanent"} /\ ev'.key = k) )
          => /\ k \in DOMAIN nd_cache'
             /\ nd_cache'[k].mac_address = nd_cache[k].mac_address
             /\ nd_cache'[k].creation_time = nd_cache[k].creation_time
             /\ (StepOf("find_entry") /\ ev'.key = k)
                   => ev'.ret = nd_cache[k].mac_address
      ]_vars

\* C5: while the maintainer is not inside a sweep every entry is permanent or
\* at most MAX_AGE plus one sweep period old; once the sweep of the current
\* period has completed every entry is permanent or at most MAX_AGE old.
C5_AgeBound ==
    /\ mc.pc = "idle" =>
         \A k \in DOMAIN nd_cache :
            nd_cache[k].permanent \/ Age(nd_cache[k]) <= MAX_AGE + SweepPeriod
    /\ (mc.pc = "idle" /\ ~due) =>
         \A k \in DOMAIN nd_cache :
            nd_cache[k].permanent \/ Age(nd_cache[k]) <= MAX_AGE

\* C5 witness: a sweep is due and an entry has reached MAX_AGE plus one period
\* at a time when an older entry could exist
C5_Witness ==
    /\ mc.pc = "idle"
    /\ due
    /\ now > MAX_AGE + SweepPeriod
    /\ \E k \in DOMAIN nd_cache :
          ~nd_cache[k].permanent /\ Age(nd_cache[k]) = MAX_AGE + SweepPeriod

\* C6: the sweep's test of line 89 sends an entry whose age is in
\* (MAX_AGE - REFRESH_WINDOW, MAX_AGE] and whose hit_count is positive to the
\* refresh, which keeps the entry, sets its hit_count to 0 and sends exactly
\* one solicitation for its key; any other entry the test sees is left as it
\* is and nothing is sent for it.  No other statement of the sweep sends.
C6_RefreshInWindow ==
    [][ /\ StepOf("maintain_cache_l89") =>
            LET e == nd_cache[ev'.key] IN
            IF /\ Age(e) > MAX_AGE - REFRESH_WINDOW
               /\ Age(e) <= MAX_AGE
               /\ e.hit_count > 0
            THEN mc'.pc = "l91" /\ mc'.key = ev'.key /\ nd_cache' = nd_cache
            ELSE mc'.pc = "l78" /\ nd_cache' = nd_cache /\ tx' = << >>
        /\ StepOf("maintain_cache_l91") =>
            /\ ev'.key \in DOMAIN nd_cache
            /\ nd_cache' = [nd_cache EXCEPT ![ev'.key].hit_count = 0]
            /\ tx' = << >>
            /\ mc'.pc = "l92" /\ mc'.key = ev'.key
        /\ StepOf("maintain_cache_l92") =>
            /\ ev'.key \in DOMAIN nd_cache
            /\ nd_cache' = nd_cache
            /\ tx' = <<NeighborSolicitation(ev'.key)>>
            /\ mc'.pc = "l78"
        /\ (mc' # mc /\ tx' # << >>) => StepOf("maintain_cache_l92")
        /\ (mc' # mc /\ mc'.pc = "l92") => StepOf("maintain_cache_l91")
        /\ (mc' # mc /\ mc'.pc = "l91") => StepOf("maintain_cache_l89")
      ]_vars

\* C6 witness: the sweep has just sent the refresh for an entry of age MAX_AGE
\* whose hit_count it had reset
C6_Witness ==
    /\ ev.op = "maintain_cache_l92"
    /\ tx = <<NeighborSolicitation(ev.key)>>
    /\ ev.key \in DOMAIN nd_cache
    /\ nd_cache[ev.key].hit_count = 0
    /\ Age(nd_cache[ev.key]) = MAX_AGE

\* C7: the sweep's test of line 82 sends every entry older than MAX_AGE,
\* whatever its hit_count, to the pop of line 83, which removes the key and
\* sends nothing, after which the sweep goes on to the next key; an entry of
\* age MAX_AGE or less goes on to the refresh test and is not removed.  The
\* sweep removes keys nowhere else.
C7_EvictOverMaxAge ==
    [][ /\ StepOf("maintain_cache_l82") =>
            LET e == nd_cache[ev'.key] IN
            /\ nd_cache' = nd_cache
            /\ tx' = << >>
            /\ Age(e) > MAX_AGE => (mc'.pc = "l83" /\ mc'.key = ev'.key)
            /\ Age(e) <= MAX_AGE => mc'.pc = "l89"
        /\ StepOf("maintain_cache_l83") =>
            /\ ev'.key \in DOMAIN nd_cache
            /\ nd_cache' = DictPop(nd_cache, ev'.key)
            /\ ev'.key \notin DOMAIN nd_cache'
            /\ tx' = << >>
            /\ mc'.pc = "l78"
        /\ (mc' # mc /\ mc'.pc = "l83") => StepOf("maintain_cache_l82")
        /\ (mc' # mc /\ DOMAIN nd_cache' # DOMAIN nd_cache)
              => StepOf("maintain_cache_l83")
      ]_vars

\* C7 witness: the sweep has just popped a key while the other key's entry,
\* exactly MAX_AGE old, is still there
C7_Witness ==
    /\ ev.op = "maintain_cache_l83"
    /\ ev.key \notin DOMAIN nd_cache
    /\ \E k \in DOMAIN nd_cache :
          ~nd_cache[k].permanent /\ Age(nd_cache[k]) = MAX_AGE

\* C8: the refresh (lines 91-92) changes no entry's creation_time; an entry
\* that had a refresh sent and was not inserted again is sent to the pop by
\* the test of line 82 as soon as it is older than MAX_AGE, whatever its
\* hit_count, so no such entry older than MAX_AGE is left when a sweep
\* completes.
C8_RefreshKeepsCreationTime ==
    [][ /\ (StepOf("maintain_cache_l91") \/ StepOf("maintain_cache_l92")) =>
            /\ DOMAIN nd_cache' = DOMAIN nd_cache
            /\ \A k \in DOMAIN nd_cache :
                  nd_cache'[k].creation_time = nd_cache[k].creation_time
        /\ (StepOf("maintain_cache_l82") /\ ev'.key \in refreshed
              /\ Age(nd_cache[ev'.key]) > MAX_AGE) => mc'.pc = "l83"
        /\ StepOf("maintain_cache_done") =>
            \A k \in refreshed' :
               k \in DOMAIN nd_cache' /\ now' - nd_cache'[k].creation_time <= MAX_AGE
      ]_vars

\* C8 witness: an entry that had a refresh sent, and was looked up after it,
\* has been found too old and is about to be popped
C8_Witness ==
    /\ ev.op = "maintain_cache_l82"
    /\ mc.pc = "l83"
    /\ mc.key \in refreshed
    /\ nd_cache[mc.key].hit_count > 0
    /\ Age(nd_cache[mc.key]) = MAX_AGE + SweepPeriod

\* C9: a permanent entry stays, with its MAC address, through every step that
\* is no insertion for its key, and the sweep never sends a refresh
\* solicitation for a key that holds a permanent entry.
C9_PermanentNeverExpires ==
    [][ /\ \A k \in DOMAIN nd_cache :
             ( /\ nd_cache[k].permanent
               /\ ~(ev'.op \in {"add_entry", "add_permanent", "delete"}
                      /\ ev'.key = k) )
             => /\ k \in DOMAIN nd_cache'
                /\ nd_cache'[k].permanent
                /\ nd_cache'[k].mac_address = nd_cache[k].mac_address
        /\ StepOf("maintain_cache_l92") =>
             ~(ev'.key \in DOMAIN nd_cache /\ nd_cache[ev'.key].permanent)
      ]_vars

SamePrefix(a, b, n) ==
    \A i \in 1..8 :
        LET bits == IF n >= 16 * i THEN 16
                    ELSE IF n <= 16 * (i - 1) THEN 0
                    ELSE n - 16 * (i - 1)
        IN  inet_pton[a][i] \div 2 ^ (16 - bits)
              = inet_pton[b][i] \div 2 ^ (16 - bits)

\* C11: whatever the cache sends, on a lookup miss or on a refresh for key
\* K, is one Neighbor Solicitation with hop limit 255 and target K, sent to
\* ff02::1:ffXX:XXXX where XX:XXXX are the low 24 bits of K, and carrying
\* exactly one option, the source link-layer address of the stack.
C11_SolicitationFields ==
    tx # << >> =>
        /\ ev.op \in {"find_entry", "maintain_cache_l92"}
        /\ Len(tx) = 1
        /\ tx[1].type = "NS"
        /\ tx[1].ip6_hop = 255
        /\ tx[1].ns_target_address = ev.key
        /\ LET d == inet_pton[tx[1].ip6_dst]
               k == inet_pton[ev.key]
           IN  /\ <<d[1], d[2], d[3], d[4], d[5], d[6]>>
                     = <<\hff02, 0, 0, 0, 0, 1>>
               /\ d[7] = \hff00 + (k[7] % 256)
               /\ d[8] = k[8]
        /\ Len(tx[1].nd_options) = 1
        /\ tx[1].nd_options[1] = [code |-> "SLLA", addr |-> mac_unicast]

\* C11 witness: a refresh went out for a key whose low 24 bits spread over
\* two groups
C11_Witness ==
    /\ ev.op = "maintain_cache_l92"
    /\ ev.key = "2001:db8::abcd:1234:5678"
    /\ Len(tx) = 1
    /\ tx[1].ip6_dst = "ff02::1:ff34:5678"

\* C12: the source of a solicitation the cache sends for key K is the address
\* of one of the hosts whose network holds K if there is such a host, and is
\* "::" if and only if there is none.
C12_SolicitationSource ==
    tx # << >> =>
        LET holders == {i \in DOMAIN ph.ip6_host :
                           SamePrefix(ev.key, ph.ip6_host[i].address,
                                      ph.ip6_host[i].network.mask)}
        IN  /\ holders # {} =>
                \E i \in holders : tx[1].ip6_src = ph.ip6_host[i].address
            /\ tx[1].ip6_src = "::" <=> holders = {}

\* C12 witness: two of three hosts hold the key and the solicitation is sent
\* from one of them; and the lookup that sent it missed
C12_Witness ==
    /\ ev.op = "find_entry"
    /\ ev.key = "2001:db9::5"
    /\ Len(tx) = 1
    /\ Len(ph.ip6_host) = 3
    /\ tx[1].ip6_src = "2001:db8:1::7"

\* C13: a Neighbor Solicitation for one of the stack's addresses T is
\* answered with exactly one Neighbor Advertisement from T for target T, hop
\* limit 255, with the stack's link-layer address as its one option; sent to
\* ff02::1 with S clear and O set when the solicitation came from ::, and to
\* the solicitation's source with S set and O clear otherwise.
C13_AdvertisementReply ==
    [][ (StepOf("phrx_icmp6_ns")
           /\ \E i \in DOMAIN ph.ip6_host :
                 ph.ip6_host[i].address = rx.packet.target)
        => /\ Len(tx') = 1
           /\ tx'[1].type = "NA"
           /\ tx'[1].ip6_src = rx.packet.target
           /\ tx'[1].na_target_address = rx.packet.target
           /\ tx'[1].ip6_hop = 255
           /\ tx'[1].nd_options = <<[code |-> "TLLA", addr |-> mac_unicast]>>
           /\ IF rx.packet.ip6_src = "::"
              THEN /\ tx'[1].ip6_dst = "ff02::1"
                   /\ tx'[1].na_flag_s = FALSE
                   /\ tx'[1].na_flag_o = TRUE
              ELSE /\ tx'[1].ip6_dst = rx.packet.ip6_src
                   /\ tx'[1].na_flag_s = TRUE
                   /\ tx'[1].na_flag_o = FALSE
      ]_vars

\* C13 witness: a DAD probe from :: for an address the stack took after its
\* own DAD has been answered to ff02::1
C13_Witness ==
    /\ ev.op = "phrx_icmp6_ns"
    /\ Len(tx) = 1
    /\ tx[1].ip6_src = "fe80::1"
    /\ tx[1].ip6_dst = "ff02::1"
    /\ tx[1].na_flag_o

\* C14: a Neighbor Solicitation for one of the stack's addresses stores its
\* source link-layer address under its source address if the source is
\* neither :: nor in ff00::/8 and the option is there, and otherwise leaves
\* the cache as it was.
C14_SolicitationUpdatesCache ==
    [][ (StepOf("phrx_icmp6_ns") /\ rx.packet.target \in ip6_unicast)
        => IF /\ rx.packet.ip6_src # "::"
              /\ inet_pton[rx.packet.ip6_src][1] \div 256 # 255
              /\ rx.packet.nd_opt_slla # None
           THEN /\ DOMAIN nd_cache' = DOMAIN nd_cache \cup {rx.packet.ip6_src}
                /\ nd_cache'[rx.packet.ip6_src] =
                      [mac_address |-> rx.packet.nd_opt_slla,
                       permanent |-> FALSE,
                       creation_time |-> now', hit_count |-> 0]
                /\ \A k \in DOMAIN nd_cache \ {rx.packet.ip6_src} :
                      nd_cache'[k] = nd_cache[k]
           ELSE nd_cache' = nd_cache /\ nd_order' = nd_order
      ]_vars

\* C14 witness: the sender of an answered solicitation is in the cache with
\* the link-layer address its option gave
C14_Witness ==
    /\ ev.op = "phrx_icmp6_ns"
    /\ ev.arg = PeerMac
    /\ Len(tx) = 1
    /\ tx[1].ip6_dst = "fe80::abcd"
    /\ "fe80::abcd" \in DOMAIN nd_cache
    /\ nd_cache["fe80::abcd"].mac_address = PeerMac

\* C15: a Neighbor Solicitation for an address that is none of the stack's
\* is dropped: nothing is sent, the cache is left as it was whatever options
\* the packet carries, and so are the DAD and Router Advertisement state.
C15_SolicitationForOthersDropped ==
    [][ (StepOf("phrx_icmp6_ns") /\ rx.packet.target \notin ip6_unicast)
        => /\ tx' = << >>
           /\ nd_cache' = nd_cache
           /\ nd_order' = nd_order
           /\ ph' = ph
           /\ dad' = dad
           /\ slaac' = slaac
      ]_vars

\* C15 witness: while DAD waits for fe80::1, not yet an address of the
\* stack, a solicitation for it with an SLLA option has been handled:
\* nothing sent, nothing cached, the event not released
C15_Witness ==
    /\ ev.op = "phrx_icmp6_ns"
    /\ ev.key = "fe80::1"
    /\ ev.arg = PeerMac
    /\ dad.pc = "wait"
    /\ ph.ip6_unicast_candidate = "fe80::1"
    /\ ph.event_icmp6_nd_dad = 0
    /\ tx = << >>
    /\ DOMAIN nd_cache = {}

\* C16: a Neighbor Advertisement for the DAD candidate goes on to line 105,
\* which stores its TLLA option (None if it has none) in icmp6_nd_dad_tlla,
\* and to line 106, which releases event_icmp6_nd_dad once; none of the
\* three statements changes the cache or sends a packet.
C16_AdvertisementForCandidate ==
    [][ /\ (StepOf("phrx_icmp6_na")
              /\ rx.packet.target = ph.ip6_unicast_candidate)
           => /\ rx'.pc = "l105"
              /\ rx'.packet = rx.packet
              /\ ph' = ph
        /\ StepOf("phrx_icmp6_l105")
           => /\ ph' = [ph EXCEPT !.icmp6_nd_dad_tlla = rx.packet.nd_opt_tlla]
              /\ rx'.pc = "l106"
              /\ rx'.packet = rx.packet
        /\ StepOf("phrx_icmp6_l106")
           => /\ ph' = [ph EXCEPT !.event_icmp6_nd_dad = @ + 1]
              /\ rx'.pc = "idle"
        /\ (rx.pc \in {"l105", "l106"} \/ rx'.pc \in {"l105", "l106"})
           => (rx' # rx => /\ nd_cache' = nd_cache
                           /\ nd_order' = nd_order
                           /\ tx' = << >>)
      ]_vars

\* C16 witness: an advertisement for the candidate without a TLLA option has
\* released the event while DAD waits, and its target is not in the cache
C16_Witness ==
    /\ ev.op = "phrx_icmp6_l106"
    /\ ev.key = "fe80::1"
    /\ ev.arg = None
    /\ dad.pc = "wait"
    /\ ph.icmp6_nd_dad_tlla = None
    /\ ph.event_icmp6_nd_dad = 1
    /\ "fe80::1" \notin DOMAIN nd_cache

\* C17: a Neighbor Advertisement for a target that is not the DAD candidate
\* stores its TLLA option under the target (not under the packet's source) if
\* it has one and leaves the cache as it was if it has none; either way no
\* event is released, no DAD state is written and nothing is sent.
C17_AdvertisementUpdatesCache ==
    [][ (StepOf("phrx_icmp6_na")
           /\ rx.packet.target # ph.ip6_unicast_candidate)
        => /\ IF rx.packet.nd_opt_tlla # None
              THEN /\ DOMAIN nd_cache' = DOMAIN nd_cache \cup {rx.packet.target}
                   /\ nd_cache'[rx.packet.target] =
                         [mac_address |-> rx.packet.nd_opt_tlla,
                          permanent |-> FALSE,
                          creation_time |-> now', hit_count |-> 0]
                   /\ \A k \in DOMAIN nd_cache \ {rx.packet.target} :
                         nd_cache'[k] = nd_cache[k]
              ELSE nd_cache' = nd_cache /\ nd_order' = nd_order
           /\ ph' = ph
           /\ rx'.pc = "idle"
           /\ tx' = << >>
      ]_vars

\* C17 witness: while DAD waits for fe80::1, an advertisement from fe80::abcd
\* for 2001:db8::1 has put the target, and not the sender, in the cache
C17_Witness ==
    /\ ev.op = "phrx_icmp6_na"
    /\ ev.key = "2001:db8::1"
    /\ dad.pc = "wait"
    /\ ph.event_icmp6_nd_dad = 0
    /\ DOMAIN nd_cache = {"2001:db8::1"}
    /\ nd_cache["2001:db8::1"].mac_address = PeerMac

C19_OneShotSignals ==
    [][ /\ StepOf("dad_signalled") => dad.heard
        /\ StepOf("slaac_signalled") => slaac.heard
      ]_vars

\* C20: the pop of line 83 removes only an entry that is itself older than
\* MAX_AGE, never one stored by add_entry after the sweep read the age.
C20_SweepNeverUndoesAdd ==
    [][ StepOf("maintain_cache_l83")
        => /\ ev'.key \in DOMAIN nd_cache
           /\ Age(nd_cache[ev'.key]) > MAX_AGE
      ]_vars

----------------------------------------------------------------------------
\* the statements of the sweep that subscript the dictionary with the key
\* in hand
SweepSubscript ==
    \/ StepOf("maintain_cache_l78") /\ mc.keys # << >>
    \/ StepOf("maintain_cache_l82")
    \/ StepOf("maintain_cache_l83")
    \/ StepOf("maintain_cache_l89")
    \/ StepOf("maintain_cache_l91")

\* C21: the sweep walks the keys it listed at its start, and a listed key
\* that is gone from the cache when a statement of the sweep reaches it is
\* skipped silently: no error, nothing sent, the cache left alone, and the
\* sweep goes on with the keys that remain.
C21_AbsentKeySkipped ==
    [][(SweepSubscript /\ ev'.key \notin DOMAIN nd_cache)
         => /\ mc'.pc = "l78"
            /\ mc'.keys = (IF mc.pc = "l78" THEN Tail(mc.keys) ELSE mc.keys)
            /\ tx' = << >>
            /\ nd_cache' = nd_cache]_vars

\* C22: every Neighbor Solicitation the cache sends (lookup miss, refresh),
\* every Neighbor Advertisement sent in reply to a solicitation and every
\* Echo Reply is handed to the TX path with hop limit 255.
C22_HopLimit ==
    \A i \in DOMAIN tx :
        tx[i].type \in {"NS", "NA", "EchoReply"} => tx[i].ip6_hop = 255

\* an Echo Reply has been handed to the TX path
C22_Witness ==
    /\ ev.op = "phrx_icmp6_echo"
    /\ Len(tx) = 1
    /\ tx[1].type = "EchoReply"
    /\ tx[1].ip6_hop = 255

\* C24: an Echo Request is answered by exactly one Echo Reply whose source
\* is the request's destination, whose destination is the request's source
\* and whose identifier, sequence number and data are the request's; the
\* cache and the DAD and Router Advertisement state stay as they were.
C24_EchoReply ==
    [][StepOf("phrx_icmp6_echo")
         => /\ Len(tx') = 1
            /\ tx'[1].type = "EchoReply"
            /\ tx'[1].ip6_src = rx.packet.ip6_dst
            /\ tx'[1].ip6_dst = rx.packet.ip6_src
            /\ tx'[1].ec_id = rx.packet.ec_id
            /\ tx'[1].ec_seq = rx.packet.ec_seq
            /\ tx'[1].ec_data = rx.packet.ec_data
            /\ nd_cache' = nd_cache
            /\ ph' = ph
            /\ dad' = dad
            /\ slaac' = slaac]_vars

\* a request with data, sent to the stack's address while the cache holds
\* an entry, has been answered
C24_Witness ==
    /\ ev.op = "phrx_icmp6_echo"
    /\ DOMAIN nd_cache # {}
    /\ Len(tx) = 1
    /\ tx[1].ip6_src = "fe80::7"
    /\ tx[1].ip6_dst = "2001:db8::1"
    /\ tx[1].ec_id = 513
    /\ tx[1].ec_seq = 258
    /\ tx[1].ec_data = <<222, 173>>

\* the embedded datagram passes the IPv6 and UDP test, stated on its bytes
PassesCheck(frame) ==
    /\ Len(frame) >= 48
    /\ frame[1] \in 96..111
    /\ frame[7] = 17

\* C25: a Destination Unreachable whose embedded datagram passes the test
\* notifies the socket of the first pattern, most specific first, that is
\* registered, once, and no other socket; when no pattern is registered or
\* the datagram fails the test no socket is notified; nothing is sent and
\* the cache stays as it was.
C25_UnreachableNotifiesFirstMatch ==
    [][StepOf("phrx_icmp6_unreachable")
         => LET frame == rx.packet.un_data
                patterns == socket_patterns(UdpMetadata(frame))
                matching == {i \in DOMAIN patterns : patterns[i] \in DOMAIN sockets}
            IN  /\ tx' = << >>
                /\ nd_cache' = nd_cache
                /\ DOMAIN sockets' = DOMAIN sockets
                /\ IF PassesCheck(frame) /\ matching # {}
                   THEN LET first == CHOOSE i \in matching :
                                        \A j \in matching : i <= j
                        IN  \A pattern \in DOMAIN sockets :
                                sockets'[pattern].unreachable =
                                    sockets[pattern].unreachable +
                                    (IF pattern = patterns[first] THEN 1 ELSE 0)
                   ELSE sockets' = sockets]_vars

\* three patterns of the datagram are registered and only the socket of
\* the most specific one has been notified
C25_Witness ==
    /\ ev.op = "phrx_icmp6_unreachable"
    /\ ev.ret = "notify_unreachable"
    /\ <<"*", 5000, "*", 0>> \in DOMAIN sockets
    /\ <<"fe80::7", 5000, "*", 0>> \in DOMAIN sockets
    /\ <<"fe80::7", 5000, "fe80::abcd", 53>> \in DOMAIN sockets
    /\ sockets[<<"fe80::7", 5000, "fe80::abcd", 53>>].unreachable = 1
    /\ sockets[<<"fe80::7", 5000, "*", 0>>].unreachable = 0
    /\ sockets[<<"*", 5000, "*", 0>>].unreachable = 0

\* C23: a Router Advertisement makes the noted prefixes exactly the pairs
\* (option, source of the packet) of its Prefix Information options, in
\* their order, in place of what was noted before (none when it has no such
\* option), and releases the Router Advertisement event exactly once; the
\* cache stays as it was and nothing is sent.
C23_RouterAdvertisement ==
    [][/\ StepOf("phrx_icmp6_ra")
           => /\ Len(ph'.icmp6_ra_prefixes) = Len(rx.packet.nd_opt_pi)
              /\ \A i \in DOMAIN rx.packet.nd_opt_pi :
                     ph'.icmp6_ra_prefixes[i] =
                         <<rx.packet.nd_opt_pi[i], rx.packet.ip6_src>>
              /\ ph'.event_icmp6_ra = ph.event_icmp6_ra
              /\ rx'.pc = "l131"
              /\ nd_cache' = nd_cache
              /\ tx' = << >>
       /\ StepOf("phrx_icmp6_l131")
           => /\ ph'.event_icmp6_ra = ph.event_icmp6_ra + 1
              /\ ph'.icmp6_ra_prefixes = ph.icmp6_ra_prefixes
              /\ rx' = RxIdle
              /\ nd_cache' = nd_cache
              /\ tx' = << >>
       /\ (rx.pc = "l131" /\ rx'.pc = "l131")
           => ph'.event_icmp6_ra <= ph.event_icmp6_ra]_vars

\* an advertisement with two options arrived after one with one option:
\* two pairs are noted, in the order of the options
C23_Witness ==
    /\ ev.op = "phrx_icmp6_l131"
    /\ ph.event_icmp6_ra = 2
    /\ DOMAIN nd_cache # {}
    /\ ph.icmp6_ra_prefixes =
           <<<<"2001:db8:1::/64", "fe80::1">>, <<PrefixInfo, "fe80::1">>>>

\* C26: a Neighbor Solicitation whose source is the unspecified address and
\* which carries a source link-layer address option is dropped: no Neighbor
\* Advertisement is sent and the cache stays as it was.
C26_UnspecifiedWithSllaDropped ==
    [][(/\ StepOf("phrx_icmp6_ns")
        /\ is_unspecified(rx.packet.ip6_src)
        /\ rx.packet.nd_opt_slla # None)
         => /\ tx' = << >>
            /\ nd_cache' = nd_cache]_vars

\* C27: the hit_count of an entry changes only by +1, on a lookup that hits
\* it, and to 0, on a refresh attempt for it or on its re-insertion: between
\* two refresh attempts it never decreases, whatever the interleaving of
\* lookups and sweeps.
C27_HitCountMonotone ==
    [][\A k \in DOMAIN nd_cache \cap DOMAIN nd_cache' :
          nd_cache'[k].hit_count # nd_cache[k].hit_count
            => \/ /\ nd_cache'[k].hit_count = nd_cache[k].hit_count + 1
                  /\ StepOf("find_entry")
                  /\ ev'.key = k
                  /\ ev'.ret = nd_cache[k].mac_address
               \/ /\ nd_cache'[k].hit_count = 0
                  /\ ev'.key = k
                  /\ \/ StepOf("maintain_cache_l91")
                     \/ StepOf("add_entry")
                     \/ StepOf("add_permanent")]_vars

\* an entry that had a refresh sent has been hit twice since, the second
\* time while a sweep was under way
C27_Witness ==
    /\ ev.op = "find_entry"
    /\ ev.key \in refreshed
    /\ ev.key \in DOMAIN nd_cache
    /\ nd_cache[ev.key].hit_count = 2
    /\ mc.pc \notin {"idle", "KeyError"}

\* C28: a lookup hit that lands after the sweep has decided to refresh the
\* entry (line 89) and before the sweep resets the count (line 91) is not
\* lost: the count still shows it after the reset.
C28_NoHitLost ==
    [][(/\ mc.pc = "l91"
        /\ ev.op = "find_entry"
        /\ ev.key = mc.key
        /\ ev.ret # None
        /\ StepOf("maintain_cache_l91"))
         => /\ mc.key \in DOMAIN nd_cache'
            /\ nd_cache'[mc.key].hit_count > 0]_vars

\* C29: when the networks of two or more hosts of the stack hold the key K
\* of a solicitation, its source is the address of the last of them in the
\* order of the host list, whichever comes first and whichever has the
\* longest prefix.
C29_LastMatchingHost ==
    tx # << >> =>
        LET holders == {i \in DOMAIN ph.ip6_host :
                           SamePrefix(ev.key, ph.ip6_host[i].address,
                                      ph.ip6_host[i].network.mask)}
        IN  Cardinality(holders) >= 2 =>
                \A last \in holders :
                    (\A i \in holders : i <= last)
                        => tx[1].ip6_src = ph.ip6_host[last].address

\* the host with the longest prefix comes first and the solicitation is
\* sent from the host with the shorter prefix that comes after it
C29_Witness ==
    /\ ev.op = "find_entry"
    /\ ev.key = "2001:db8::1"
    /\ ph.ip6_host = <<HostGlobal, HostWide>>
    /\ Len(tx) = 1
    /\ tx[1].ip6_src = "2001:db8:1::7"

\* C30: every inbound packet adds exactly 1 to the pre-parse counter; a
\* packet is handed to the handler of its next header only if it parsed and
\* its destination is a unicast address or a group of the stack; and a
\* packet that is not handed on, a packet with a next header no handler
\* takes included, adds 1 to exactly one of the two drop counters.
C30_HandedOrCounted ==
    [][/\ StepOf("phrx_ip6")
           => packet_stats_rx' =
                 [packet_stats_rx EXCEPT !.ip6__pre_parse = @ + 1]
       /\ StepOf("phrx_ip6_l50")
           => LET packet == rx.packet
                  handed == ev'.ret # None
                  drops == packet_stats_rx.ip6__failed_parse__drop
                             + packet_stats_rx.ip6__dst_unknown__drop
                  drops_after == packet_stats_rx'.ip6__failed_parse__drop
                                   + packet_stats_rx'.ip6__dst_unknown__drop
              IN  /\ packet_stats_rx'.ip6__pre_parse
                        = packet_stats_rx.ip6__pre_parse
                  /\ handed => /\ packet.parse_failed = None
                               /\ packet.ip6_dst \in ip6_unicast \cup ip6_multicast
                               /\ drops_after = drops
                  /\ ~handed => drops_after = drops + 1]_vars


\* C31: the sweep sends a refresh solicitation for K only if a lookup has hit
\* K since the later of K's last add and K's last refresh attempt.  A
\* solicitation sent by line 92 as the very next step after an add of K has
\* no lookup between that add and itself, so the claim rules that step out.
C31_RefreshOnlyAfterHit ==
    [][(/\ StepOf("maintain_cache_l92")
        /\ tx' = <<NeighborSolicitation(mc.key)>>)
         => ~(/\ ev.op \in {"add_entry", "add_permanent"}
              /\ ev.key = mc.key)]_vars


\* a step of the sweep: a statement of _maintain_cache
SweepStep ==
    ev'.op \in {"maintain_cache_start", "maintain_cache_done",
                "maintain_cache_l78", "maintain_cache_l82",
                "maintain_cache_l83", "maintain_cache_l89",
                "maintain_cache_l91", "maintain_cache_l92"}

\* C32: find_entry leaves the set of keys and every entry's mac_address,
\* creation_time and permanent flag as they were; a statement of the sweep
\* adds no key, leaves the mac_address, creation_time and permanent flag of
\* every entry it keeps as they were, and leaves the hit_count of every
\* permanent entry as it was.
C32_FrameConditions ==
    [][/\ StepOf("find_entry")
           => /\ DOMAIN nd_cache' = DOMAIN nd_cache
              /\ \A k \in DOMAIN nd_cache :
                    /\ nd_cache'[k].mac_address = nd_cache[k].mac_address
                    /\ nd_cache'[k].creation_time = nd_cache[k].creation_time
                    /\ nd_cache'[k].permanent = nd_cache[k].permanent
       /\ SweepStep
           => /\ DOMAIN nd_cache' \subseteq DOMAIN nd_cache
              /\ \A k \in DOMAIN nd_cache' :
                    /\ nd_cache'[k].mac_address = nd_cache[k].mac_address
                    /\ nd_cache'[k].creation_time = nd_cache[k].creation_time
                    /\ nd_cache'[k].permanent = nd_cache[k].permanent
                    /\ nd_cache[k].permanent
                         => nd_cache'[k].hit_count = nd_cache[k].hit_count]_vars


\* C33: the address DAD is running for is not one of the stack's unicast
\* addresses; a Neighbor Solicitation whose target is that address is
\* dropped, nothing is sent and the cache stays as it is; and no Neighbor
\* Advertisement is ever sent for an address that is not a unicast address
\* of the stack.
C33_CandidateNotAdvertised ==
    [][/\ ph'.ip6_unicast_candidate # None
           => ph'.ip6_unicast_candidate \notin ip6_unicast'
       /\ (/\ StepOf("phrx_icmp6_ns")
           /\ ph.ip6_unicast_candidate # None
           /\ rx.packet.target = ph.ip6_unicast_candidate)
           => /\ tx' = << >>
              /\ nd_cache' = nd_cache
       /\ \A i \in DOMAIN tx' :
             tx'[i].type = "NA"
               => /\ tx'[i].na_target_address \in ip6_unicast
                  /\ tx'[i].na_target_address # ph.ip6_unicast_candidate]_vars

\* a solicitation without a source link-layer address for fe80::1 has been
\* handled while DAD was waiting for fe80::1, and nothing was sent
C33_Witness ==
    /\ ev.op = "phrx_icmp6_ns"
    /\ ev.key = "fe80::1"
    /\ ev.arg = None
    /\ dad.pc = "wait"
    /\ ph.ip6_unicast_candidate = "fe80::1"
    /\ "fe80::1" \notin ip6_unicast
    /\ tx = << >>


\* the low 24 bits of an address: the low byte of group 7 and group 8
Low24(address) == <<inet_pton[address][7] % 256, inet_pton[address][8]>>

\* C34: a.solicited_node_multicast is ff02::1:ff00:0 with its low 24 bits
\* replaced by the low 24 bits of a; it satisfies is_solicited_node_multicast
\* and is_multicast; and it is the group of another address b exactly when
\* a and b have the same low 24 bits.
C34_SolicitedNodeMulticast ==
    ev.op = "solicited_node_multicast"
      => /\ inet_pton[ev.ret] =
               <<\hff02, 0, 0, 0, 0, 1,
                 \hff00 + Low24(ev.key)[1], Low24(ev.key)[2]>>
         /\ is_solicited_node_multicast(ev.ret)
         /\ is_multicast(ev.ret)
         /\ (ev.ret = solicited_node_multicast(ev.arg))
               <=> (Low24(ev.key) = Low24(ev.arg))

\* the group of an address with bits above the low 24 set in its last two
\* groups has been worked out next to an address that differs from it in
\* those bits only: the groups are the same
C34_Witness ==
    /\ ev.op = "solicited_node_multicast"
    /\ ev.key = "2001:db8::abcd:1234:5678"
    /\ ev.arg = "fe80::ab34:5678"
    /\ ev.ret = "ff02::1:ff34:5678"


\* C35: fetch sends the Discover first, from a new socket; it sends the
\* Request only at the first wait, only when the message received there is
\* an Offer, and with the transaction id of the Discover and the server id
\* and the address of that Offer; a timeout or a message of another type, at
\* either wait, makes it return (None, None) and send nothing; it returns
\* an address only on an Ack at the second wait; nothing is sent after it
\* has returned; and whenever it has returned the socket has been closed
\* exactly once, and not before.
C35_FetchOrder ==
    [][/\ StepOf("fetch")
           => /\ dhcp4.pc = "idle"
              /\ tx' = <<Dhcp4Discover(dhcp4'.dhcp_xid)>>
       /\ dhcp4.pc # "idle" => dhcp4'.dhcp_xid = dhcp4.dhcp_xid
       /\ \A i \in DOMAIN tx' :
             /\ tx'[i].dhcp_msg_type = DHCP4_MSG_DISCOVER => dhcp4.pc = "idle"
             /\ tx'[i].dhcp_msg_type = DHCP4_MSG_REQUEST
                  => /\ dhcp4.pc = "l83"
                     /\ dhcp4'.dhcp_packet_rx.dhcp_msg_type = DHCP4_MSG_OFFER
                     /\ tx'[i].dhcp_xid = dhcp4.dhcp_xid
                     /\ tx'[i].dhcp_srv_id = dhcp4'.dhcp_packet_rx.dhcp_srv_id
                     /\ tx'[i].dhcp_req_ip_addr = dhcp4'.dhcp_packet_rx.dhcp_yiaddr
                     /\ Len(tx') = 1
       /\ (/\ dhcp4.pc \in {"l83", "l129"}
           /\ \/ ev'.ret = "ReceiveTimeout"
              \/ dhcp4'.dhcp_packet_rx.dhcp_msg_type
                    # (IF dhcp4.pc = "l83" THEN DHCP4_MSG_OFFER ELSE DHCP4_MSG_ACK))
           => /\ dhcp4'.pc = "return"
              /\ dhcp4'.ret = <<None, None>>
              /\ tx' = << >>
       /\ (dhcp4'.pc = "return" /\ dhcp4'.ret # <<None, None>>)
           => /\ dhcp4.pc = "l129"
              /\ dhcp4'.dhcp_packet_rx.dhcp_msg_type = DHCP4_MSG_ACK
       /\ dhcp4.pc = "return" => tx' = << >>
       /\ dhcp4'.pc = "return"
           => ~dhcp4'.s.open /\ dhcp4'.s.closes = 1
       /\ dhcp4'.pc \in {"l83", "l129"}
           => dhcp4'.s.open /\ dhcp4'.s.closes = 0]_vars

\* fetch has returned an address and a router after an Offer of one server
\* and an Ack of the other, both with a transaction id that is not its own
C35_Witness ==
    /\ dhcp4.pc = "return"
    /\ dhcp4.ret = <<"192.168.9.102/24", "192.168.9.1">>
    /\ dhcp4.s.closes = 1
    /\ dhcp4.dhcp_xid = 0
    /\ dhcp4.dhcp_srv_id = "192.168.9.2"
    /\ dhcp4.dhcp_packet_rx.dhcp_msg_type = DHCP4_MSG_ACK
    /\ dhcp4.dhcp_packet_rx.dhcp_srv_id = "192.168.9.1"
    /\ dhcp4.dhcp_packet_rx.dhcp_xid # dhcp4.dhcp_xid

=============================================================================
